---- MODULE Spec2Model ----
(***************************************************************************)
(* Timeline scheduler of the demo recorder (DemoRecorder.executeScript),   *)
(* the overlay effect calls and action executor it drives, and the render  *)
(* pipeline of the compositor (DemoCompositor.render): narration, audio    *)
(* alignment, merge and the caption segmenter (generateSubtitles).         *)
(*                                                                         *)
(* Spec runs the scheduler, RenderSpec runs render on a script and a       *)
(* timing, CaptionSpec runs the caption segmenter on longer narrations.    *)
(*                                                                         *)
(* Times are integer milliseconds; the cue boundaries of the caption       *)
(* segmenter are doubles.  An optional field of the script is a            *)
(* sequence: <<>> when absent, <<v>> when present.  Text is a sequence of  *)
(* one-character strings.                                                  *)
(***************************************************************************)
EXTENDS Integers, Sequences, FiniteSets, TLC

VARIABLES
    script,         \* the DemoScript handed to executeScript (its sections)
    run,            \* which call of executeScript is in progress
    pc,             \* position of executeScript (its await points)
    si,             \* index of the section being recorded
    ai,             \* index of the action being executed
    currentTime,    \* local cursor of executeScript
    sectionStart,   \* per-section start of the cursor
    lastActionEnd,  \* nominal end of the last action
    sections,       \* SectionTiming[] pushed so far
    result,         \* <<>> or <<TimingMetadata>> once executeScript returned
    doc,            \* the live document: target element present, overlay attached
    anims,          \* overlay animations in flight in the document
    wall,           \* wall-clock ms elapsed since executeScript was called
    secWallStart,   \* wall-clock ms at which the current section began
    preFloor,       \* cursor value before the minimum-duration floor
    floorSlept,     \* ms slept by the minimum-duration floor
    actual,         \* per section: wall-clock window and floor sleep observed
    log,            \* steps of this run in the order they started
    missed,         \* some selector of this run matched no element
    failed,         \* kinds of step failures seen in this run
    prevResult,     \* result of the previous run
    prevSig,        \* step outcomes of the previous run
    cues,           \* caption cues written by generateSubtitles
    renderScript,   \* the DemoScript handed to render (ids and narrations)
    timingMetadata, \* the TimingMetadata handed to render
    rpc,            \* position of render (its await points)
    nk,             \* index of the section generateNarration is at
    audioSegments,  \* AudioSegment[] pushed by generateNarration
    inputs,         \* the delayed inputs handed to the mix
    mixFailed,      \* the mix of this render ended with an error
    track,          \* <<>> or <<the content of combined-audio.mp3>>
    renderError,    \* "" or the step whose error render rejected with
    finalVideo,     \* <<>> or <<the content of final.mp4>>
    srt,            \* the cues render wrote to subtitles.srt
    narrated,       \* what generateNarration did with each section it has visited
    recPc,          \* position of record (its await points)
    held,           \* which of this.browser, this.context are not null
    opened,         \* the browser and context that were opened
    closeTried,     \* the browser and context whose close() was called
    cleanup,        \* the overlay cleanup of record: destroy() calls, outcome
    recError,       \* "" or the step whose error record caught
    canvas,         \* the overlay canvas is attached to the document
    animationFrame, \* this.animationFrame: 0, or the effect that requested last
    effects,        \* the effect calls made on the overlay, in call order
    clock,          \* the page's time: Date.now() and the animation frames run
    destroyed,      \* destroy() was called on the overlay
    job,            \* the worker job being processed: its kind and position
    project,        \* the project row of the database
    jobLog,         \* database updates and engine calls of the job, in order
    agent,          \* which of this.browser, this.context, this.page are set
    running,        \* the browser and context processes that are open
    crawlPc,        \* position of analyzeApp (its await points)
    visitedUrls,    \* this.visitedUrls
    frames,         \* the calls of exploreApp in progress, innermost last
    pageUrl,        \* this.page.url()
    site,           \* the links each page of the application shows
    explored,       \* the calls of exploreApp made so far, in call order
    routes,         \* the routes exploreApp returned to analyzeApp
    crawlError      \* "" or the step whose error analyzeApp rejects with

schedulerVars ==
    <<script, run, pc, si, ai, currentTime, sectionStart, lastActionEnd,
      sections, result, doc, anims, wall, secWallStart, preFloor,
      floorSlept, actual, log, missed, failed, prevResult, prevSig, cues>>

renderVars ==
    <<renderScript, timingMetadata, rpc, nk, audioSegments, inputs, mixFailed,
      track, renderError, finalVideo, srt, narrated>>

recordVars == <<recPc, held, opened, closeTried, cleanup, recError>>

overlayVars == <<canvas, animationFrame, effects, clock, destroyed>>

workerVars == <<job, project, jobLog>>

crawlVars ==
    <<agent, running, crawlPc, visitedUrls, frames, pageUrl, site, explored,
      routes, crawlError>>

vars ==
    <<schedulerVars, renderVars, recordVars, overlayVars, workerVars, crawlVars>>

\* what the scheduler, the render pipeline, record and the overlay leave alone
nonSchedulerVars == <<renderVars, recordVars, overlayVars, workerVars, crawlVars>>
nonRenderVars == <<schedulerVars, recordVars, overlayVars, workerVars, crawlVars>>
nonRecordVars == <<renderVars, overlayVars, workerVars, crawlVars>>
nonOverlayVars == <<schedulerVars, renderVars, recordVars, workerVars, crawlVars>>
nonWorkerVars == <<schedulerVars, renderVars, recordVars, overlayVars, crawlVars>>
nonCrawlVars == <<schedulerVars, renderVars, recordVars, overlayVars, workerVars>>

----------------------------------------------------------------------------
(* Bounds of the model *)

MaxScriptSize == 3      \* sections plus actions of a script
MaxRuns == 2            \* calls of executeScript on the same script
TickMs == 1000          \* wall-clock ms between two animation frames

(* Program constants *)

DefaultActionDuration == 1000
DefaultOverlayDuration == 2000
SelectorTimeout == 5000
ScrollSettle == 500
NavTimeout == 60000
ChunkSize == 12

----------------------------------------------------------------------------
(* Helpers for JavaScript values *)

Max(a, b) == IF a >= b THEN a ELSE b

\* x || d on an optional number: absent and 0 are both falsy
OrDefault(opt, d) == IF opt # <<>> /\ opt[1] # 0 THEN opt[1] ELSE d

Digits == <<"0", "1", "2", "3", "4", "5", "6", "7", "8", "9">>

IsDigit(c) == \E d \in 1..10 : Digits[d] = c

DigitValue(c) == (CHOOSE d \in 1..10 : Digits[d] = c) - 1

RECURSIVE ParseDigits(_, _, _)
ParseDigits(s, i, acc) ==
    IF i > Len(s) \/ ~IsDigit(s[i]) THEN acc
    ELSE ParseDigits(s, i + 1, acc * 10 + DigitValue(s[i]))

\* parseInt(s, 10) on an unsigned text: <<>> is NaN, else <<n>> of the leading digits
ParseInt(s) ==
    IF s = <<>> \/ ~IsDigit(s[1]) THEN <<>> ELSE <<ParseDigits(s, 1, 0)>>

\* setTimeout delay of sleep(ms): Math.max(0, ms), NaN counting as no delay
SleepMs(opt) == IF opt = <<>> THEN 0 ELSE Max(0, opt[1])

----------------------------------------------------------------------------
(* Scripts *)

Hello == <<"H","e","l","l","o"," ","w","o","r","l","d"," ","t","h","i","s",
           " ","i","s"," ","a"," ","t","e","s","t">>

ActionPool ==
    { [type |-> "click", selector |-> "#btn", value |-> <<>>, timing |-> 0,
       highlightStyle |-> "arrow", highlightDuration |-> <<>>],
      [type |-> "wait", selector |-> "", value |-> <<"1","0","0","0","0">>,
       timing |-> 3000, highlightStyle |-> "none", highlightDuration |-> <<>>],
      [type |-> "navigate", selector |-> "", value |-> <<"/","b">>, timing |-> 0,
       highlightStyle |-> "none", highlightDuration |-> <<>>],
      [type |-> "type", selector |-> "#btn", value |-> <<"h","i">>, timing |-> 500,
       highlightStyle |-> "box", highlightDuration |-> <<500>>],
      [type |-> "hover", selector |-> "#btn", value |-> <<>>, timing |-> 1000,
       highlightStyle |-> "spotlight", highlightDuration |-> <<0>>],
      [type |-> "scroll", selector |-> "", value |-> <<>>, timing |-> 2000,
       highlightStyle |-> "zoom", highlightDuration |-> <<3000>>] }

\* narration and nominal duration (seconds) of a section
SectionShapes == { [narration |-> Hello, duration |-> 5],
                   [narration |-> <<>>, duration |-> 0] }

RECURSIVE ActionSeqs(_)
ActionSeqs(n) ==
    IF n = 0 THEN { <<>> }
    ELSE { <<>> } \cup { <<a>> \o r : a \in ActionPool, r \in ActionSeqs(n - 1) }

SectionBodies(n) ==
    { [narration |-> sh.narration, duration |-> sh.duration, actions |-> as] :
        sh \in SectionShapes, as \in ActionSeqs(n) }

RECURSIVE BodySeqs(_)
BodySeqs(n) ==
    IF n = 0 THEN { <<>> }
    ELSE { <<>> } \cup
         UNION { { <<b>> \o r : r \in BodySeqs(n - 1 - Len(b.actions)) } :
                 b \in SectionBodies(n - 1) }

SectionId(i) == "s" \o ToString(i)

WithIds(bs) ==
    [i \in 1..Len(bs) |->
        [id |-> SectionId(i), name |-> SectionId(i), narration |-> bs[i].narration,
         duration |-> bs[i].duration, actions |-> bs[i].actions]]

Scripts == { WithIds(bs) : bs \in BodySeqs(MaxScriptSize) }

----------------------------------------------------------------------------
(* getOverlayMethod *)

getOverlayMethod(style) ==
    CASE style = "arrow" -> "drawArrow"
      [] style = "spotlight" -> "spotlight"
      [] style = "box" -> "highlightBox"
      [] style = "zoom" -> "zoom"
      [] OTHER -> ""

(* executeOverlay up to the point where the in-page call has started.      *)
(* evalThrows: page.evaluate rejects (closed page, invalid selector).      *)
executeOverlayUncaught(action, d, evalThrows) ==
    LET method == getOverlayMethod(action.highlightStyle)
        duration == OrDefault(action.highlightDuration, DefaultOverlayDuration)
    IN  IF method = "" \/ action.selector = ""
        THEN [raised |-> FALSE, outcome |-> "skipped", duration |-> 0, method |-> method]
        ELSE IF evalThrows
        THEN [raised |-> TRUE, outcome |-> "threw", duration |-> 0, method |-> method]
        ELSE IF ~d.overlay
        THEN [raised |-> FALSE, outcome |-> "noop", duration |-> 0, method |-> method]
        ELSE IF ~d.hasElement
        THEN [raised |-> FALSE, outcome |-> "notfound", duration |-> 0, method |-> method]
        ELSE [raised |-> FALSE, outcome |-> "animating", duration |-> duration,
              method |-> method]

executeOverlay(action, d, evalThrows) ==
    LET method == getOverlayMethod(action.highlightStyle)
        duration == OrDefault(action.highlightDuration, DefaultOverlayDuration)
    IN  IF method = "" \/ action.selector = ""
        THEN [raised |-> FALSE, outcome |-> "skipped", duration |-> 0, method |-> method]
        ELSE IF evalThrows
        THEN [raised |-> FALSE, outcome |-> "threw", duration |-> 0, method |-> method]
        ELSE IF ~d.overlay
        THEN [raised |-> FALSE, outcome |-> "noop", duration |-> 0, method |-> method]
        ELSE IF ~d.hasElement
        THEN [raised |-> FALSE, outcome |-> "notfound", duration |-> 0, method |-> method]
        ELSE [raised |-> FALSE, outcome |-> "animating", duration |-> duration,
              method |-> method]

----------------------------------------------------------------------------
(* executeAction.  env is what the page does with the call:                *)
(*   env.fail      "none", "primary" (the page call throws or times out),  *)
(*                 "inject" (injectOverlay throws after a navigation)      *)
(*   env.navigated the document was replaced although goto timed out      *)
(*   env.newHas    the new document holds the target element               *)

Envs == [fail : {"none", "primary", "inject"}, navigated : BOOLEAN, newHas : BOOLEAN]

\* click, hover, type: waitForSelector(...).catch, then the call with its .catch
Targeted(d) ==
    IF d.hasElement
    THEN [raised |-> FALSE, outcome |-> "ok", ms |-> 0, doc |-> d]
    ELSE [raised |-> FALSE, outcome |-> "notfound", ms |-> SelectorTimeout, doc |-> d]

Skipped(d) == [raised |-> FALSE, outcome |-> "ok", ms |-> 0, doc |-> d]

Navigate(d, env) ==
    IF env.fail = "primary"
    THEN [raised |-> FALSE, outcome |-> "failed", ms |-> NavTimeout,
          doc |-> IF env.navigated
                  THEN [hasElement |-> env.newHas, overlay |-> FALSE] ELSE d]
    ELSE IF env.fail = "inject"
    THEN [raised |-> FALSE, outcome |-> "failed", ms |-> 0,
          doc |-> [hasElement |-> env.newHas, overlay |-> FALSE]]
    ELSE [raised |-> FALSE, outcome |-> "ok", ms |-> 0,
          doc |-> [hasElement |-> env.newHas, overlay |-> TRUE]]

\* the same handler without its try/catch and .catch handlers
executeActionUncaught(action, d, env) ==
    CASE action.type \in {"click", "hover"} ->
            IF action.selector # ""
            THEN [Targeted(d) EXCEPT !.raised = ~d.hasElement] ELSE Skipped(d)
      [] action.type = "type" ->
            IF action.selector # "" /\ action.value # <<>>
            THEN [Targeted(d) EXCEPT !.raised = ~d.hasElement] ELSE Skipped(d)
      [] action.type = "scroll" ->
            IF env.fail = "primary"
            THEN [raised |-> TRUE, outcome |-> "failed", ms |-> 0, doc |-> d]
            ELSE [raised |-> FALSE, outcome |-> "ok", ms |-> ScrollSettle, doc |-> d]
      [] action.type = "wait" ->
            [raised |-> FALSE, outcome |-> "ok", doc |-> d,
             ms |-> SleepMs(ParseInt(IF action.value # <<>> THEN action.value
                                     ELSE <<"1","0","0","0">>))]
      [] action.type = "navigate" ->
            IF action.value # <<>>
            THEN [Navigate(d, env) EXCEPT !.raised = env.fail # "none"]
            ELSE Skipped(d)
      [] OTHER -> Skipped(d)

executeAction(action, d, env) ==
    CASE action.type \in {"click", "hover"} ->
            IF action.selector # "" THEN Targeted(d) ELSE Skipped(d)
      [] action.type = "type" ->
            IF action.selector # "" /\ action.value # <<>>
            THEN Targeted(d) ELSE Skipped(d)
      [] action.type = "scroll" ->
            IF env.fail = "primary"
            THEN [raised |-> FALSE, outcome |-> "failed", ms |-> 0, doc |-> d]
            ELSE [raised |-> FALSE, outcome |-> "ok", ms |-> ScrollSettle, doc |-> d]
      [] action.type = "wait" ->
            [raised |-> FALSE, outcome |-> "ok", doc |-> d,
             ms |-> SleepMs(ParseInt(IF action.value # <<>> THEN action.value
                                     ELSE <<"1","0","0","0">>))]
      [] action.type = "navigate" ->
            IF action.value # <<>> THEN Navigate(d, env) ELSE Skipped(d)
      [] OTHER -> Skipped(d)

----------------------------------------------------------------------------
(* executeScript: the arithmetic of its loop *)

\* waitTime before an action (line 166)
WaitTimeFromZero(action, lae, start) == action.timing - lae

\* waitTime (line 166)
WaitTime(action, lae, start) == action.timing - (lae - start)

\* lastActionEnd after an action (lines 180-181)
NextLastActionEnd(action, start) ==
    start + action.timing + OrDefault(action.highlightDuration, DefaultActionDuration)

NextCurrentTimeNoMax(cur, lae) == lae

\* currentTime after an action (line 182)
NextCurrentTime(cur, lae) == Max(cur, lae)

MinSectionEndSeconds(start, section) == start + section.duration

\* minSectionEnd (line 186)
MinSectionEnd(start, section) == start + section.duration * 1000

SectionTimingSwapped(section, start, end) ==
    [id |-> section.id, startTime |-> end, endTime |-> start,
     narration |-> section.narration]

\* the SectionTiming pushed for a section (lines 192-197)
SectionTiming(section, start, end) ==
    [id |-> section.id, startTime |-> start, endTime |-> end,
     narration |-> section.narration]

AwaitOverlayDetached(as) == TRUE

\* await this.executeOverlay(action): the in-page promise has resolved
AwaitOverlay(as) == as = <<>>

CurSection == script[si]
CurAction == script[si].actions[ai]

Step(kind) == [kind |-> kind, si |-> si, ai |-> ai]

\* what a run went through: whether a selector missed, whether a step failed
Sig == [missed |-> missed, failed |-> failed # {}]

----------------------------------------------------------------------------
(* JavaScript numbers.  A non-negative double is [int, frac]: its integer  *)
(* part and the digits of its fractional part in base 2^LimbBits, most     *)
(* significant first, without trailing zeros.  Every operation computes    *)
(* the exact result and rounds it to 53 significant bits, ties to even.    *)

Significand == 53
LimbBits == 12
Base == 2 ^ LimbBits
DivLimbs == 6           \* digits of a quotient: more than Significand bits

RECURSIVE BitLen(_)
BitLen(k) == IF k = 0 THEN 0 ELSE 1 + BitLen(k \div 2)

RECURSIVE TrimZeros(_)
TrimZeros(limbs) ==
    IF limbs # <<>> /\ limbs[Len(limbs)] = 0
    THEN TrimZeros(SubSeq(limbs, 1, Len(limbs) - 1))
    ELSE limbs

RECURSIVE LeadingZeroBits(_)
LeadingZeroBits(limbs) ==
    IF limbs = <<>> THEN 0
    ELSE IF limbs[1] = 0 THEN LimbBits + LeadingZeroBits(Tail(limbs))
    ELSE LimbBits - BitLen(limbs[1])

LimbAt(limbs, i) == IF i <= Len(limbs) THEN limbs[i] ELSE 0

\* a + b on fractional digits, from position i down to 1
RECURSIVE AddFrac(_, _, _, _, _)
AddFrac(a, b, i, carry, acc) ==
    IF i = 0 THEN [carry |-> carry, limbs |-> acc]
    ELSE LET s == LimbAt(a, i) + LimbAt(b, i) + carry
         IN  AddFrac(a, b, i - 1, s \div Base, <<s % Base>> \o acc)

\* k * a on fractional digits, from position i down to 1
RECURSIVE MulFrac(_, _, _, _, _)
MulFrac(a, k, i, carry, acc) ==
    IF i = 0 THEN [carry |-> carry, limbs |-> acc]
    ELSE LET p == k * a[i] + carry
         IN  MulFrac(a, k, i - 1, p \div Base, <<p % Base>> \o acc)

\* the first digits of r / n, r < n < Base, and whether more follow
RECURSIVE DivFrac(_, _, _, _)
DivFrac(r, n, need, acc) ==
    IF r = 0 \/ need = 0 THEN [limbs |-> acc, sticky |-> r # 0]
    ELSE DivFrac((r * Base) % n, n, need - 1, Append(acc, (r * Base) \div n))

FromInt(k) == [int |-> k, frac |-> <<>>]

\* round the exact value int + 0.frac (plus something below it when sticky):
\* keep bits of the fraction survive, the last of them in digit q + 1 with
\* weight w, or in digit q (the integer part when q = 0) when o = 0
Round(int, frac, sticky) ==
    LET keep == IF int > 0 THEN Significand - BitLen(int)
                ELSE LeadingZeroBits(frac) + Significand
        q == keep \div LimbBits
        o == keep % LimbBits
        w == 2 ^ (LimbBits - o)
        limb == LimbAt(frac, q + 1)
        low == limb % w
        below == sticky \/ \E j \in (q + 2)..Len(frac) : frac[j] # 0
        odd == IF o > 0 THEN (limb \div w) % 2 = 1
               ELSE IF q > 0 THEN LimbAt(frac, q) % 2 = 1
               ELSE int % 2 = 1
        up == 2 * low > w \/ (2 * low = w /\ (below \/ odd))
        kept == [j \in 1..(q + 1) |-> IF j <= q THEN LimbAt(frac, j) ELSE limb - low]
        ulp == [j \in 1..(q + 1) |-> IF j = q + 1 THEN w % Base ELSE 0]
        sum == AddFrac(kept, ulp, q + 1, 0, <<>>)
        top == AddFrac(kept, <<>>, q, 1, <<>>)
        next == IF o > 0 THEN sum ELSE top
    IN  IF up THEN [int |-> int + next.carry, frac |-> TrimZeros(next.limbs)]
        ELSE [int |-> int, frac |-> TrimZeros(kept)]

\* a / n of two integers, a >= 0, 0 < n < Base
Divide(a, n) ==
    LET d == DivFrac(a % n, n, DivLimbs, <<>>)
    IN  Round(a \div n, d.limbs, d.sticky)

\* k * x of an integer k >= 0 and a double
Times(k, x) ==
    LET p == MulFrac(x.frac, k, Len(x.frac), 0, <<>>)
    IN  Round(k * x.int + p.carry, p.limbs, FALSE)

\* x + y of two doubles
Plus(x, y) ==
    LET len == Max(Len(x.frac), Len(y.frac))
        s == AddFrac(x.frac, y.frac, len, 0, <<>>)
    IN  Round(x.int + y.int + s.carry, s.limbs, FALSE)

\* Math.floor(x)
MathFloor(x) == x.int

----------------------------------------------------------------------------
(* Caption segmenter: DemoCompositor.generateSubtitles and formatSrtTime.  *)

RECURSIVE NumToString(_)
NumToString(n) ==
    IF n < 10 THEN Digits[n + 1]
    ELSE NumToString(n \div 10) \o Digits[(n % 10) + 1]

RECURSIVE PadStart(_, _)
PadStart(str, length) ==
    IF Len(str) >= length THEN str ELSE PadStart("0" \o str, length)

padNoFill(num, length) == NumToString(num)

\* num.toString().padStart(length, "0")
pad(num, length) == PadStart(NumToString(num), length)

\* a formatter whose minutes and seconds are not reduced
formatSrtTimeNoMod(ms) ==
    LET hours == MathFloor(ms) \div 3600000
        minutes == MathFloor(ms) \div 60000
        seconds == MathFloor(ms) \div 1000
        milliseconds == MathFloor(ms) % 1000
    IN  pad(hours, 2) \o ":" \o pad(minutes, 2) \o ":" \o pad(seconds, 2)
        \o "," \o pad(milliseconds, 3)

\* HH:MM:SS,mmm of a non-negative double.  ms % k keeps the fraction of ms
\* and ms / k is below the next integer whenever ms is, so each field is the
\* field of Math.floor(ms).
formatSrtTime(ms) ==
    LET hours == MathFloor(ms) \div 3600000
        minutes == (MathFloor(ms) % 3600000) \div 60000
        seconds == (MathFloor(ms) % 60000) \div 1000
        milliseconds == MathFloor(ms) % 1000
    IN  pad(hours, 2) \o ":" \o pad(minutes, 2) \o ":" \o pad(seconds, 2)
        \o "," \o pad(milliseconds, 3)

\* narration.split(" ")
RECURSIVE SplitFrom(_, _, _, _)
SplitFrom(text, i, word, acc) ==
    IF i > Len(text) THEN Append(acc, word)
    ELSE IF text[i] = " " THEN SplitFrom(text, i + 1, <<>>, Append(acc, word))
    ELSE SplitFrom(text, i + 1, Append(word, text[i]), acc)

Split(text) == SplitFrom(text, 1, <<>>, <<>>)

\* words.join(" ")
RECURSIVE Join(_)
Join(words) ==
    IF words = <<>> THEN <<>>
    ELSE IF Len(words) = 1 THEN words[1]
    ELSE words[1] \o <<" ">> \o Join(Tail(words))

Min(a, b) == IF a <= b THEN a ELSE b

\* the chunks of chunkSize words (lines 339-345)
RECURSIVE ChunksFrom(_, _, _)
ChunksFrom(words, i, size) ==
    IF i >= Len(words) THEN <<>>
    ELSE <<Join(SubSeq(words, i + 1, Min(i + size, Len(words))))>>
         \o ChunksFrom(words, i + size, size)

\* chunks cut one word too late
ChunksOffByOne(words) == ChunksFrom(words, 0, ChunkSize + 1)

Chunks(words) == ChunksFrom(words, 0, ChunkSize)

\* script.sections.find((s) => s.id === id): <<>> or <<section>>
FindSection(scr, id) ==
    IF \E k \in DOMAIN scr : scr[k].id = id
    THEN <<scr[CHOOSE k \in DOMAIN scr :
                 scr[k].id = id /\ \A j \in 1..(k - 1) : scr[j].id # id]>>
    ELSE <<>>

\* the cues of one timed section, numbered from index (lines 347-357)
SectionCues(st, narration, index) ==
    LET chunks == Chunks(Split(narration))
        n == Len(chunks)
        span == st.endTime - st.startTime
        chunkDuration == Divide(span, n)
        chunkStart(i) == Plus(FromInt(st.startTime), Times(i, chunkDuration))
        chunkEnd(i) == Plus(chunkStart(i), chunkDuration)
    IN  [i \in 1..n |->
            [index |-> index + i - 1,
             start |-> formatSrtTime(chunkStart(i - 1)),
             end |-> formatSrtTime(chunkEnd(i - 1)),
             startMs |-> MathFloor(chunkStart(i - 1)),
             endMs |-> MathFloor(chunkEnd(i - 1)),
             text |-> chunks[i],
             sectionId |-> st.id]]

\* a cue loop whose index also advances on a skipped section
RECURSIVE SubtitlesFromCountingSkipped(_, _, _, _)
SubtitlesFromCountingSkipped(scr, timings, k, acc) ==
    IF k > Len(timings) THEN acc
    ELSE LET found == FindSection(scr, timings[k].id)
             skipped == { j \in 1..(k - 1) :
                            LET f == FindSection(scr, timings[j].id)
                            IN  f = <<>> \/ f[1].narration = <<>> }
         IN  IF found = <<>> \/ found[1].narration = <<>>
             THEN SubtitlesFromCountingSkipped(scr, timings, k + 1, acc)
             ELSE SubtitlesFromCountingSkipped(scr, timings, k + 1,
                     acc \o SectionCues(timings[k], found[1].narration,
                                        Len(acc) + Cardinality(skipped) + 1))

RECURSIVE SubtitlesFrom(_, _, _, _)
SubtitlesFrom(scr, timings, k, acc) ==
    IF k > Len(timings) THEN acc
    ELSE LET found == FindSection(scr, timings[k].id)
         IN  IF found = <<>> \/ found[1].narration = <<>>
             THEN SubtitlesFrom(scr, timings, k + 1, acc)
             ELSE SubtitlesFrom(scr, timings, k + 1,
                     acc \o SectionCues(timings[k], found[1].narration, Len(acc) + 1))

\* the cue sequence written to subtitles.srt (lines 328-358)
generateSubtitles(scr, timing) == SubtitlesFrom(scr, timing.sections, 1, <<>>)

----------------------------------------------------------------------------
(* The state machine *)

\* the recorder with executeScript at position at, on one of scripts
SchedulerAt(scripts, at) ==
    /\ script \in scripts
    /\ run = 1
    /\ pc = at
    /\ si = 1
    /\ ai = 1
    /\ currentTime = 0
    /\ sectionStart = 0
    /\ lastActionEnd = 0
    /\ sections = <<>>
    /\ result = <<>>
    /\ doc = [hasElement |-> TRUE, overlay |-> TRUE]
    /\ anims = <<>>
    /\ wall = 0
    /\ secWallStart = 0
    /\ preFloor = 0
    /\ floorSlept = 0
    /\ actual = <<>>
    /\ log = <<>>
    /\ missed = FALSE
    /\ failed = {}
    /\ prevResult = <<>>
    /\ prevSig = <<>>
    /\ cues = <<>>

\* the recorder before executeScript is called on one of scripts
SchedulerInit(scripts) == SchedulerAt(scripts, "start")

\* record has not been called
RecordIdle ==
    /\ recPc = "idle"
    /\ held = {}
    /\ opened = {}
    /\ closeTried = {}
    /\ cleanup = [calls |-> 0, outcome |-> "none"]
    /\ recError = ""

\* a document with a fresh overlay: no effect was called
OverlayFresh ==
    /\ canvas = TRUE
    /\ animationFrame = 0
    /\ effects = <<>>
    /\ clock = [now |-> 0, frame |-> 0]
    /\ destroyed = FALSE

\* no worker job is being processed
WorkerIdle ==
    /\ job = [kind |-> "none", pc |-> "idle", step |-> 0, caught |-> "",
               thrown |-> "", n |-> 0]
    /\ project = [status |-> "draft", data |-> ""]
    /\ jobLog = <<>>

\* a BrowserAgent as constructed (lines 42-52): analyzeApp has not been called
AgentFresh ==
    /\ agent = [browser |-> FALSE, context |-> FALSE, page |-> FALSE]
    /\ running = [browser |-> "none", context |-> "none"]
    /\ visitedUrls = {}
    /\ frames = <<>>
    /\ pageUrl = ""
    /\ explored = <<>>
    /\ routes = <<>>
    /\ crawlError = ""

CrawlIdle ==
    /\ AgentFresh
    /\ crawlPc = "idle"
    /\ site = <<>>

\* the compositor before render is called on one of scripts and of timings
RenderInputs(scripts, timings) ==
    /\ renderScript \in scripts
    /\ timingMetadata \in timings
    /\ nk = 1
    /\ audioSegments = <<>>
    /\ inputs = <<>>
    /\ mixFailed = FALSE
    /\ track = <<>>
    /\ renderError = ""
    /\ finalVideo = <<>>
    /\ srt = <<>>
    /\ narrated = <<>>

NoTiming == [sections |-> <<>>, totalDuration |-> 0]

\* render is not running
RenderIdle ==
    /\ RenderInputs({ <<>> }, { NoTiming })
    /\ rpc = "idle"

Init ==
    /\ SchedulerInit(Scripts)
    /\ RenderIdle
    /\ RecordIdle
    /\ OverlayFresh
    /\ WorkerIdle
    /\ CrawlIdle

\* a call of executeScript that keeps the cursor of the previous call
BeginRunKeepCursor ==
    /\ pc = "start"
    /\ pc' = "section"
    /\ sections' = <<>>
    /\ si' = 1
    /\ \E h \in BOOLEAN : doc' = [hasElement |-> h, overlay |-> TRUE]
    /\ wall' = 0
    /\ actual' = <<>>
    /\ log' = <<>>
    /\ missed' = FALSE
    /\ failed' = {}
    /\ result' = <<>>
    /\ cues' = <<>>
    /\ UNCHANGED <<script, run, ai, currentTime, sectionStart, lastActionEnd, anims,
                   secWallStart, preFloor, floorSlept, prevResult, prevSig>>
    /\ UNCHANGED nonSchedulerVars

\* executeScript is called on a page with the overlay injected (lines 155-156)
BeginRun ==
    /\ pc = "start"
    /\ pc' = "section"
    /\ sections' = <<>>
    /\ currentTime' = 0
    /\ si' = 1
    /\ \E h \in BOOLEAN : doc' = [hasElement |-> h, overlay |-> TRUE]
    /\ wall' = 0
    /\ actual' = <<>>
    /\ log' = <<>>
    /\ missed' = FALSE
    /\ failed' = {}
    /\ result' = <<>>
    /\ cues' = <<>>
    /\ UNCHANGED <<script, run, ai, sectionStart, lastActionEnd, anims,
                   secWallStart, preFloor, floorSlept, prevResult, prevSig>>
    /\ UNCHANGED nonSchedulerVars

\* a section loop that restarts from the last action's nominal end
BeginSectionAtLastActionEnd ==
    /\ pc = "section"
    /\ si <= Len(script)
    /\ sectionStart' = lastActionEnd
    /\ lastActionEnd' = lastActionEnd
    /\ ai' = 1
    /\ secWallStart' = wall
    /\ pc' = "pace"
    /\ UNCHANGED <<script, run, si, currentTime, sections, result, doc, anims, wall,
                   preFloor, floorSlept, actual, log, missed, failed, prevResult,
                   prevSig, cues>>
    /\ UNCHANGED nonSchedulerVars

\* top of the section loop (lines 158-162)
BeginSection ==
    /\ pc = "section"
    /\ si <= Len(script)
    /\ sectionStart' = currentTime
    /\ lastActionEnd' = currentTime
    /\ ai' = 1
    /\ secWallStart' = wall
    /\ pc' = "pace"
    /\ UNCHANGED <<script, run, si, currentTime, sections, result, doc, anims, wall,
                   preFloor, floorSlept, actual, log, missed, failed, prevResult, prevSig, cues>>
    /\ UNCHANGED nonSchedulerVars

\* pacing wait before an action, then the overlay guard (lines 164-172)
Pace ==
    /\ pc = "pace"
    /\ ai <= Len(CurSection.actions)
    /\ LET waitTime == WaitTime(CurAction, lastActionEnd, sectionStart)
           slept == IF waitTime > 0 THEN waitTime ELSE 0
       IN  wall' = wall + slept
    /\ pc' = IF CurAction.highlightStyle # "none" /\ CurAction.selector # ""
             THEN "overlay" ELSE "action"
    /\ UNCHANGED <<script, run, si, ai, currentTime, sectionStart, lastActionEnd,
                   sections, result, doc, anims, secWallStart, preFloor, floorSlept,
                   actual, log, missed, failed, prevResult, prevSig, cues>>
    /\ UNCHANGED nonSchedulerVars

\* executeOverlay is called; an effect whose target exists draws its first frame
StartOverlay ==
    /\ pc = "overlay"
    /\ \E evalThrows \in BOOLEAN :
         LET r == executeOverlay(CurAction, doc, evalThrows)
         IN  /\ log' = Append(log, Step("overlay"))
             /\ missed' = (missed \/ r.outcome = "notfound")
             /\ failed' = IF r.outcome = "threw" THEN failed \cup {"overlay"} ELSE failed
             /\ anims' = IF r.outcome = "animating"
                         THEN Append(anims, [elapsed |-> 0, duration |-> r.duration,
                                             method |-> r.method])
                         ELSE anims
             /\ pc' = IF r.raised THEN "aborted" ELSE "overlayWait"
    /\ UNCHANGED <<script, run, si, ai, currentTime, sectionStart, lastActionEnd,
                   sections, result, doc, wall, secWallStart, preFloor, floorSlept,
                   actual, prevResult, prevSig, cues>>
    /\ UNCHANGED nonSchedulerVars

\* one requestAnimationFrame callback of an effect in flight
AnimationTick ==
    /\ \E i \in DOMAIN anims :
         LET elapsed == anims[i].elapsed + TickMs
         IN  anims' = IF elapsed >= anims[i].duration
                      THEN SubSeq(anims, 1, i - 1) \o SubSeq(anims, i + 1, Len(anims))
                      ELSE [anims EXCEPT ![i].elapsed = elapsed]
    /\ wall' = wall + TickMs
    /\ UNCHANGED <<script, run, pc, si, ai, currentTime, sectionStart, lastActionEnd,
                   sections, result, doc, secWallStart, preFloor, floorSlept, actual,
                   log, missed, failed, prevResult, prevSig, cues>>
    /\ UNCHANGED nonSchedulerVars

\* the awaited overlay call has settled (line 173)
OverlayDone ==
    /\ pc = "overlayWait"
    /\ AwaitOverlay(anims)
    /\ pc' = "action"
    /\ UNCHANGED <<script, run, si, ai, currentTime, sectionStart, lastActionEnd,
                   sections, result, doc, anims, wall, secWallStart, preFloor,
                   floorSlept, actual, log, missed, failed, prevResult, prevSig, cues>>
    /\ UNCHANGED nonSchedulerVars

\* executeAction is called (line 177)
BeginAction ==
    /\ pc = "action"
    /\ pc' = "actionWait"
    /\ log' = Append(log, Step("action"))
    /\ UNCHANGED <<script, run, si, ai, currentTime, sectionStart, lastActionEnd,
                   sections, result, doc, anims, wall, secWallStart, preFloor,
                   floorSlept, actual, missed, failed, prevResult, prevSig, cues>>
    /\ UNCHANGED nonSchedulerVars

\* a timing update that takes the time the action really took
EndActionMeasured ==
    /\ pc = "actionWait"
    /\ \E env \in Envs :
         LET r == executeAction(CurAction, doc, env)
         IN  /\ doc' = r.doc
             /\ wall' = wall + r.ms
             /\ missed' = (missed \/ r.outcome = "notfound")
             /\ failed' = IF r.outcome = "failed"
                          THEN failed \cup {CurAction.type} ELSE failed
             /\ pc' = IF r.raised THEN "aborted" ELSE "pace"
             /\ lastActionEnd' = sectionStart + CurAction.timing + r.ms
    /\ currentTime' = NextCurrentTime(currentTime, lastActionEnd')
    /\ ai' = ai + 1
    /\ UNCHANGED <<script, run, si, sectionStart, sections, result, anims,
                   secWallStart, preFloor, floorSlept, actual, log, prevResult,
                   prevSig, cues>>
    /\ UNCHANGED nonSchedulerVars

\* executeAction has settled; the timing update (lines 177-182)
EndAction ==
    /\ pc = "actionWait"
    /\ \E env \in Envs :
         LET r == executeAction(CurAction, doc, env)
         IN  /\ doc' = r.doc
             /\ wall' = wall + r.ms
             /\ missed' = (missed \/ r.outcome = "notfound")
             /\ failed' = IF r.outcome = "failed"
                          THEN failed \cup {CurAction.type} ELSE failed
             /\ pc' = IF r.raised THEN "aborted" ELSE "pace"
    /\ lastActionEnd' = NextLastActionEnd(CurAction, sectionStart)
    /\ currentTime' = NextCurrentTime(currentTime, lastActionEnd')
    /\ ai' = ai + 1
    /\ UNCHANGED <<script, run, si, sectionStart, sections, result, anims,
                   secWallStart, preFloor, floorSlept, actual, log, prevResult,
                   prevSig, cues>>
    /\ UNCHANGED nonSchedulerVars

\* minimum section duration (lines 185-190)
Floor ==
    /\ pc = "pace"
    /\ ai > Len(CurSection.actions)
    /\ LET minSectionEnd == MinSectionEnd(sectionStart, CurSection)
       IN  /\ preFloor' = currentTime
           /\ IF currentTime < minSectionEnd
              THEN /\ floorSlept' = minSectionEnd - currentTime
                   /\ wall' = wall + (minSectionEnd - currentTime)
                   /\ currentTime' = minSectionEnd
              ELSE /\ floorSlept' = 0
                   /\ UNCHANGED <<wall, currentTime>>
    /\ pc' = "record"
    /\ UNCHANGED <<script, run, si, ai, sectionStart, lastActionEnd, sections, result,
                   doc, anims, secWallStart, actual, log, missed, failed, prevResult, prevSig, cues>>
    /\ UNCHANGED nonSchedulerVars

\* sections.push (lines 192-197)
RecordSection ==
    /\ pc = "record"
    /\ sections' = Append(sections, SectionTiming(CurSection, sectionStart, currentTime))
    /\ actual' = Append(actual, [startTime |-> secWallStart, endTime |-> wall,
                                  preFloor |-> preFloor, floorSlept |-> floorSlept])
    /\ log' = Append(log, Step("record"))
    /\ si' = si + 1
    /\ pc' = "section"
    /\ UNCHANGED <<script, run, ai, currentTime, sectionStart, lastActionEnd, result,
                   doc, anims, wall, secWallStart, preFloor, floorSlept, missed,
                   failed, prevResult, prevSig, cues>>
    /\ UNCHANGED nonSchedulerVars

\* return { sections, totalDuration: currentTime } (lines 202-205)
ReturnTiming ==
    /\ pc = "section"
    /\ si > Len(script)
    /\ result' = <<[sections |-> sections, totalDuration |-> currentTime]>>
    /\ pc' = "done"
    /\ UNCHANGED <<script, run, si, ai, currentTime, sectionStart, lastActionEnd,
                   sections, doc, anims, wall, secWallStart, preFloor, floorSlept,
                   actual, log, missed, failed, prevResult, prevSig, cues>>
    /\ UNCHANGED nonSchedulerVars

\* the compositor writes the captions from the script and the returned timing
GenerateSubtitles ==
    /\ pc = "done"
    /\ cues' = generateSubtitles(script, result[1])
    /\ pc' = "captioned"
    /\ UNCHANGED <<script, run, si, ai, currentTime, sectionStart, lastActionEnd,
                   sections, result, doc, anims, wall, secWallStart, preFloor,
                   floorSlept, actual, log, missed, failed, prevResult, prevSig>>
    /\ UNCHANGED nonSchedulerVars

\* the same script is recorded again
Rerun ==
    /\ pc = "captioned"
    /\ run < MaxRuns
    /\ run' = run + 1
    /\ prevResult' = result
    /\ prevSig' = <<Sig>>
    /\ pc' = "start"
    /\ UNCHANGED <<script, si, ai, currentTime, sectionStart, lastActionEnd, sections,
                   result, doc, anims, wall, secWallStart, preFloor, floorSlept,
                   actual, log, missed, failed, cues>>
    /\ UNCHANGED nonSchedulerVars

Next ==
    \/ BeginRun
    \/ BeginSection
    \/ Pace
    \/ StartOverlay
    \/ AnimationTick
    \/ OverlayDone
    \/ BeginAction
    \/ EndAction
    \/ Floor
    \/ RecordSection
    \/ ReturnTiming
    \/ GenerateSubtitles
    \/ Rerun

Spec == Init /\ [][Next]_vars

----------------------------------------------------------------------------
(* Render pipeline: DemoCompositor.render and the steps it awaits.  A      *)
(* track is what an audio file holds: how it was made, its length in ms    *)
(* and the narration clips in it with the ms at which each one starts.     *)

MaxRenderSections == 2      \* sections of a script or a timing given to render

ProbeDefault == 5000
DefaultClipSeconds == 5

Blank == <<" ", " ">>

WordCounts == { 1, 12, 13, 25 }

RECURSIVE Words(_)
Words(n) == IF n = 1 THEN <<"w">> ELSE <<"w", " ">> \o Words(n - 1)

RenderId(i) == <<"a", "b", "c", "d">>[i]

RECURSIVE NarrationSeqs(_, _)
NarrationSeqs(pool, n) ==
    IF n = 0 THEN { <<>> }
    ELSE { <<>> } \cup { <<t>> \o r : t \in pool, r \in NarrationSeqs(pool, n - 1) }

\* the scripts whose narrations come from pool
RenderScripts(pool) ==
    { [i \in 1..Len(ns) |->
          [id |-> RenderId(i), name |-> RenderId(i), narration |-> ns[i]]] :
        ns \in NarrationSeqs(pool, MaxRenderSections) }

\* "x" is the id of no script section
TimingIds == { RenderId(i) : i \in 1..MaxRenderSections } \cup { "x" }

RECURSIVE IdSeqs(_)
IdSeqs(n) ==
    IF n = 0 THEN { <<>> }
    ELSE LET shorter == IdSeqs(n - 1)
         IN  shorter \cup
             UNION { { Append(ids, id) :
                         id \in { t \in TimingIds : \A j \in DOMAIN ids : ids[j] # t } } :
                     ids \in { r \in shorter : Len(r) = n - 1 } }

WindowLengths == { 1000, 5000 }

\* a timing as executeScript returns it: contiguous windows from 0
TimingOf(ids, length) ==
    [sections |-> [i \in 1..Len(ids) |->
                      [id |-> ids[i], startTime |-> (i - 1) * length,
                       endTime |-> i * length]],
     totalDuration |-> Len(ids) * length]

RenderTimings ==
    { TimingOf(ids, length) : ids \in IdSeqs(MaxRenderSections),
                              length \in WindowLengths }

\* !section.narration || section.narration.trim() === "" (line 132)
Unnarrated(section) == \A i \in DOMAIN section.narration : section.narration[i] = " "

\* what ffprobe reports of a clip: an error, or the clip's seconds (absent or 0
\* when the metadata has none)
Probes ==
    { [err |-> TRUE, duration |-> <<>>] } \cup
    { [err |-> FALSE, duration |-> d] : d \in { <<>>, <<2>>, <<7>> } }

\* a probe whose error default is given in seconds
getAudioDurationSeconds(probe) ==
    IF probe.err THEN DefaultClipSeconds
    ELSE OrDefault(probe.duration, DefaultClipSeconds) * 1000

\* the ms getAudioDuration resolves with (lines 176-188)
getAudioDuration(probe) ==
    IF probe.err THEN ProbeDefault
    ELSE OrDefault(probe.duration, DefaultClipSeconds) * 1000

\* durationMs / 1000, and the ms of a length in seconds
Seconds(ms) == [num |-> ms, den |-> 1000]
Millis(sec) == (sec.num * 1000) \div sec.den

\* a silent track whose -t option is given in ms
createSilentAudioMs(durationMs) ==
    [kind |-> "silent", duration |-> Millis([num |-> durationMs, den |-> 1]),
     clips |-> <<>>]

\* the file createSilentAudio writes when ffmpeg ends (lines 265-279)
createSilentAudio(durationMs) ==
    [kind |-> "silent", duration |-> Millis(Seconds(durationMs)), clips |-> <<>>]

\* the file fs.copyFileSync leaves (line 206): the clip as it is
CopyTrack(segment) ==
    [kind |-> "copy", duration |-> segment.duration,
     clips |-> <<[sectionId |-> segment.sectionId, onset |-> 0,
                  duration |-> segment.duration]>>]

\* inputs delayed by the start of the section at the segment's position
MixInputsByPosition(segments, timing) ==
    LET n == Min(Len(segments), Len(timing.sections))
    IN  [i \in 1..n |->
            [sectionId |-> segments[i].sectionId,
             delayMs |-> timing.sections[i].startTime,
             duration |-> segments[i].duration]]

\* inputs that keep a segment without a timed section, undelayed
MixInputsKeepAll(segments, timing) ==
    [i \in 1..Len(segments) |->
        LET found == FindSection(timing.sections, segments[i].sectionId)
        IN  [sectionId |-> segments[i].sectionId,
             delayMs |-> IF found = <<>> THEN 0 ELSE found[1].startTime,
             duration |-> segments[i].duration]]

\* the adelay inputs of the mix (lines 222-230): one per segment whose
\* sectionId is the id of a timing section, delayed by that section's start
MixInputs(segments, timing) ==
    LET timed(segment) == FindSection(timing.sections, segment.sectionId) # <<>>
        kept == SelectSeq(segments, timed)
    IN  [i \in 1..Len(kept) |->
            [sectionId |-> kept[i].sectionId,
             delayMs |-> FindSection(timing.sections, kept[i].sectionId)[1].startTime,
             duration |-> kept[i].duration]]

RECURSIVE Longest(_)
Longest(ins) ==
    IF ins = <<>> THEN 0
    ELSE Max(ins[1].delayMs + ins[1].duration, Longest(Tail(ins)))

\* the file amix=inputs=n:duration=longest writes (line 241)
MixTrack(ins) ==
    [kind |-> "mix", duration |-> Longest(ins),
     clips |-> [i \in 1..Len(ins) |->
                   [sectionId |-> ins[i].sectionId, onset |-> ins[i].delayMs,
                    duration |-> ins[i].duration]]]

\* a mix whose error rejects combineAudio
AfterMixReject(ok) == IF ok THEN "merge" ELSE "failed"

\* where combineAudio goes when the mix has ended or failed (lines 250-260)
AfterMix(ok) == IF ok THEN "merge" ELSE "silent"

CurNarrated == renderScript[nk]

RenderInit ==
    /\ SchedulerInit({ <<>> })
    /\ RenderInputs(RenderScripts({ <<>>, Blank, Hello }), RenderTimings)
    /\ rpc = "narration"
    /\ RecordIdle
    /\ OverlayFresh
    /\ WorkerIdle
    /\ CrawlIdle

\* generateNarration skips a section without narration (lines 132-135)
SkipNarration ==
    /\ rpc = "narration"
    /\ nk <= Len(renderScript)
    /\ Unnarrated(CurNarrated)
    /\ narrated' = Append(narrated, [outcome |-> "empty", probeFailed |-> FALSE])
    /\ nk' = nk + 1
    /\ UNCHANGED <<renderScript, timingMetadata, rpc, audioSegments, inputs,
                   mixFailed, track, renderError, finalVideo, srt>>
    /\ UNCHANGED nonRenderVars

\* a synthesis whose error is not caught: generateNarration rejects
SynthesizeUncaught ==
    /\ rpc = "narration"
    /\ nk <= Len(renderScript)
    /\ ~Unnarrated(CurNarrated)
    /\ \/ /\ \E probe \in Probes :
               /\ audioSegments' = Append(audioSegments,
                                          [sectionId |-> CurNarrated.id,
                                           duration |-> getAudioDuration(probe)])
               /\ narrated' = Append(narrated, [outcome |-> "clip",
                                                probeFailed |-> probe.err])
          /\ nk' = nk + 1
          /\ UNCHANGED <<rpc, renderError>>
       \/ /\ rpc' = "failed"
          /\ renderError' = "narration"
          /\ UNCHANGED <<audioSegments, narrated, nk>>
    /\ UNCHANGED <<renderScript, timingMetadata, inputs, mixFailed, track,
                   finalVideo, srt>>
    /\ UNCHANGED nonRenderVars

\* generateNarration synthesizes a section: the clip is pushed with the probed
\* duration, or the error of the text-to-speech call, of the stream or of the
\* file write is caught and the section is left out (lines 137-170)
Synthesize ==
    /\ rpc = "narration"
    /\ nk <= Len(renderScript)
    /\ ~Unnarrated(CurNarrated)
    /\ \/ \E probe \in Probes :
             /\ audioSegments' = Append(audioSegments,
                                        [sectionId |-> CurNarrated.id,
                                         duration |-> getAudioDuration(probe)])
             /\ narrated' = Append(narrated, [outcome |-> "clip",
                                              probeFailed |-> probe.err])
       \/ /\ narrated' = Append(narrated, [outcome |-> "failed", probeFailed |-> FALSE])
          /\ UNCHANGED audioSegments
    /\ nk' = nk + 1
    /\ UNCHANGED <<renderScript, timingMetadata, rpc, inputs, mixFailed, track,
                   renderError, finalVideo, srt>>
    /\ UNCHANGED nonRenderVars

\* combineAudio without segments (lines 197-202): awaits createSilentAudio
CombineNone ==
    /\ rpc = "narration"
    /\ nk > Len(renderScript)
    /\ Len(audioSegments) = 0
    /\ rpc' = "silent"
    /\ UNCHANGED <<renderScript, timingMetadata, nk, audioSegments, inputs,
                   mixFailed, track, renderError, finalVideo, srt>>
    /\ UNCHANGED narrated
    /\ UNCHANGED nonRenderVars

\* a combineAudio that mixes a single segment like several ones
CombineSingleDelayed ==
    /\ rpc = "narration"
    /\ nk > Len(renderScript)
    /\ Len(audioSegments) = 1
    /\ \/ /\ track' = <<MixTrack(MixInputs(audioSegments, timingMetadata))>>
          /\ rpc' = "merge"
          /\ UNCHANGED renderError
       \/ /\ rpc' = "failed"
          /\ renderError' = "copy"
          /\ UNCHANGED track
    /\ UNCHANGED <<renderScript, timingMetadata, nk, audioSegments, inputs,
                   mixFailed, finalVideo, srt>>
    /\ UNCHANGED narrated
    /\ UNCHANGED nonRenderVars

\* combineAudio with one segment (lines 204-208): copyFileSync copies the clip
\* or throws
CombineSingle ==
    /\ rpc = "narration"
    /\ nk > Len(renderScript)
    /\ Len(audioSegments) = 1
    /\ \/ /\ track' = <<CopyTrack(audioSegments[1])>>
          /\ rpc' = "merge"
          /\ UNCHANGED renderError
       \/ /\ rpc' = "failed"
          /\ renderError' = "copy"
          /\ UNCHANGED track
    /\ UNCHANGED <<renderScript, timingMetadata, nk, audioSegments, inputs,
                   mixFailed, finalVideo, srt>>
    /\ UNCHANGED narrated
    /\ UNCHANGED nonRenderVars

\* combineAudio with several segments (lines 210-241): builds the delayed
\* inputs; runs the mix, or createSilentAudio when no input is left
CombineMany ==
    /\ rpc = "narration"
    /\ nk > Len(renderScript)
    /\ Len(audioSegments) >= 2
    /\ inputs' = MixInputs(audioSegments, timingMetadata)
    /\ rpc' = IF Len(inputs') = 0 THEN "silent" ELSE "mix"
    /\ UNCHANGED <<renderScript, timingMetadata, nk, audioSegments, mixFailed,
                   track, renderError, finalVideo, srt>>
    /\ UNCHANGED narrated
    /\ UNCHANGED nonRenderVars

\* the mix ends, or fails and createSilentAudio is tried (lines 243-261)
Mix ==
    /\ rpc = "mix"
    /\ \E ok \in BOOLEAN :
         /\ rpc' = AfterMix(ok)
         /\ mixFailed' = ~ok
         /\ track' = IF ok THEN <<MixTrack(inputs)>> ELSE track
         /\ renderError' = IF rpc' = "failed" THEN "mix" ELSE renderError
    /\ UNCHANGED <<renderScript, timingMetadata, nk, audioSegments, inputs,
                   finalVideo, srt>>
    /\ UNCHANGED narrated
    /\ UNCHANGED nonRenderVars

\* createSilentAudio settles (lines 268-278): combineAudio resolves with the
\* silent track, or rejects with the error of ffmpeg
SilentAudio ==
    /\ rpc = "silent"
    /\ \/ /\ track' = <<createSilentAudio(timingMetadata.totalDuration)>>
          /\ rpc' = "merge"
          /\ UNCHANGED renderError
       \/ /\ rpc' = "failed"
          /\ renderError' = "silent"
          /\ UNCHANGED track
    /\ UNCHANGED <<renderScript, timingMetadata, nk, audioSegments, inputs,
                   mixFailed, finalVideo, srt>>
    /\ UNCHANGED narrated
    /\ UNCHANGED nonRenderVars

\* a merge that degrades to the raw video when it fails
CompositeVideoDegraded ==
    /\ rpc = "merge"
    /\ \/ /\ finalVideo' = <<[audio |-> track[1]]>>
          /\ UNCHANGED renderError
       \/ /\ finalVideo' = <<[audio |-> createSilentAudio(0)]>>
          /\ renderError' = "merge"
    /\ rpc' = "subtitles"
    /\ UNCHANGED <<renderScript, timingMetadata, nk, audioSegments, inputs,
                   mixFailed, track, srt>>
    /\ UNCHANGED narrated
    /\ UNCHANGED nonRenderVars

\* compositeVideo settles (lines 281-319): final.mp4 carries the track, or
\* render rejects with the error of the merge
CompositeVideo ==
    /\ rpc = "merge"
    /\ \/ /\ finalVideo' = <<[audio |-> track[1]]>>
          /\ rpc' = "subtitles"
          /\ UNCHANGED renderError
       \/ /\ rpc' = "failed"
          /\ renderError' = "merge"
          /\ UNCHANGED finalVideo
    /\ UNCHANGED <<renderScript, timingMetadata, nk, audioSegments, inputs,
                   mixFailed, track, srt>>
    /\ UNCHANGED narrated
    /\ UNCHANGED nonRenderVars

\* render writes the subtitles and returns (lines 108-119)
WriteSubtitles ==
    /\ rpc = "subtitles"
    /\ srt' = generateSubtitles(renderScript, timingMetadata)
    /\ rpc' = "done"
    /\ UNCHANGED <<renderScript, timingMetadata, nk, audioSegments, inputs,
                   mixFailed, track, renderError, finalVideo>>
    /\ UNCHANGED narrated
    /\ UNCHANGED nonRenderVars

RenderNext ==
    \/ SkipNarration
    \/ Synthesize
    \/ CombineNone
    \/ CombineSingle
    \/ CombineMany
    \/ Mix
    \/ SilentAudio
    \/ CompositeVideo
    \/ WriteSubtitles

RenderSpec == RenderInit /\ [][RenderNext]_vars

\* generateSubtitles is entered on a script with longer narrations
CaptionInit ==
    /\ SchedulerInit({ <<>> })
    /\ RenderInputs(RenderScripts({ <<>> } \cup { Words(n) : n \in WordCounts }),
                    RenderTimings)
    /\ rpc = "subtitles"
    /\ RecordIdle
    /\ OverlayFresh
    /\ WorkerIdle
    /\ CrawlIdle

CaptionSpec == CaptionInit /\ [][WriteSubtitles]_vars

\* times whose fields reach their least and greatest values, below 100 hours
StampValues ==
    { 0, 1, 999, 1000, 59999, 60000, 61001, 3599999, 3600000, 3661001,
      36000000, 86399999, 100 * 3600000 - 1 }

\* two one-word sections recorded in the windows 0..t1 and t1..t2
StampTimings ==
    { [sections |-> <<[id |-> "a", startTime |-> 0, endTime |-> t1],
                      [id |-> "b", startTime |-> t1, endTime |-> t2]>>,
       totalDuration |-> t2] :
        <<t1, t2>> \in { w \in StampValues \X StampValues : w[1] <= w[2] } }

\* generateSubtitles is entered on a long recording
FormatInit ==
    /\ SchedulerInit({ <<>> })
    /\ RenderInputs({ [i \in 1..2 |-> [id |-> RenderId(i), name |-> RenderId(i),
                                       narration |-> Words(1)]] },
                    StampTimings)
    /\ rpc = "subtitles"
    /\ RecordIdle
    /\ OverlayFresh
    /\ WorkerIdle
    /\ CrawlIdle

FormatSpec == FormatInit /\ [][WriteSubtitles]_vars

----------------------------------------------------------------------------
(* Recording session: DemoRecorder.record.  It opens a browser and a       *)
(* context, loads the start page, injects the overlay, runs executeScript, *)
(* cleans the overlay up and closes what it opened; its catch block closes *)
(* what the recorder still holds and rethrows.                             *)

\* findStartUrl: the value of the first navigate action that has one (lines 129-138)
findStartUrl(sc) ==
    LET urls == { <<i, j>> \in (DOMAIN sc) \X (1..MaxScriptSize) :
                    /\ j \in DOMAIN sc[i].actions
                    /\ sc[i].actions[j].type = "navigate"
                    /\ sc[i].actions[j].value # "" }
        first == CHOOSE u \in urls :
                   \A v \in urls : u[1] < v[1] \/ (u[1] = v[1] /\ u[2] <= v[2])
    IN  IF urls = {} THEN "" ELSE sc[first[1]].actions[first[2]].value

\* an awaited step of the try block rejects: control enters the catch block (line 121)
Caught(step) ==
    /\ recPc' = "catch"
    /\ recError' = step

\* record is called (lines 41-55)
RecordInit ==
    /\ SchedulerAt(Scripts, "idle")
    /\ RenderIdle
    /\ OverlayFresh
    /\ WorkerIdle
    /\ CrawlIdle
    /\ recPc = "launch"
    /\ held = {}
    /\ opened = {}
    /\ closeTried = {}
    /\ cleanup = [calls |-> 0, outcome |-> "none"]
    /\ recError = ""

\* this.browser = await chromium.launch(...) (lines 57-59)
Launch ==
    /\ recPc = "launch"
    /\ \E ok \in BOOLEAN :
         IF ok
         THEN /\ held' = held \cup {"browser"}
              /\ opened' = opened \cup {"browser"}
              /\ recPc' = "context"
              /\ UNCHANGED recError
         ELSE /\ Caught("launch")
              /\ UNCHANGED <<held, opened>>
    /\ UNCHANGED <<closeTried, cleanup>>
    /\ UNCHANGED <<schedulerVars, nonRecordVars>>

\* this.context = await this.browser.newContext(...) (lines 61-67)
NewContext ==
    /\ recPc = "context"
    /\ \E ok \in BOOLEAN :
         IF ok
         THEN /\ held' = held \cup {"context"}
              /\ opened' = opened \cup {"context"}
              /\ recPc' = "page"
              /\ UNCHANGED recError
         ELSE /\ Caught("context")
              /\ UNCHANGED <<held, opened>>
    /\ UNCHANGED <<closeTried, cleanup>>
    /\ UNCHANGED <<schedulerVars, nonRecordVars>>

\* this.page = await this.context.newPage() (line 69)
NewPage ==
    /\ recPc = "page"
    /\ \E ok \in BOOLEAN :
         IF ok
         THEN /\ recPc' = "goto"
              /\ UNCHANGED recError
         ELSE Caught("page")
    /\ UNCHANGED <<held, opened, closeTried, cleanup>>
    /\ UNCHANGED <<schedulerVars, nonRecordVars>>

\* the initial navigation, when the script has a start url (lines 72-78)
InitialGoto ==
    /\ recPc = "goto"
    /\ \E ok \in BOOLEAN :
         IF ok \/ findStartUrl(script) = ""
         THEN /\ recPc' = "inject"
              /\ UNCHANGED recError
         ELSE Caught("goto")
    /\ UNCHANGED <<held, opened, closeTried, cleanup>>
    /\ UNCHANGED <<schedulerVars, nonRecordVars>>

\* await this.injectOverlay(), then executeScript is called (lines 81-84)
Inject ==
    /\ recPc = "inject"
    /\ pc = "idle"
    /\ \E ok \in BOOLEAN :
         IF ok
         THEN /\ recPc' = "script"
              /\ pc' = "start"
              /\ UNCHANGED recError
         ELSE /\ Caught("inject")
              /\ UNCHANGED pc
    /\ UNCHANGED <<held, opened, closeTried, cleanup>>
    /\ UNCHANGED <<script, run, si, ai, currentTime, sectionStart, lastActionEnd,
                   sections, result, doc, anims, wall, secWallStart, preFloor,
                   floorSlept, actual, log, missed, failed, prevResult, prevSig, cues>>
    /\ UNCHANGED nonRecordVars

\* executeScript rejects: a section whose actions cannot be iterated (line 164)
ScriptThrows ==
    /\ recPc = "script"
    /\ pc = "section"
    /\ si <= Len(script)
    /\ pc' = "aborted"
    /\ Caught("script")
    /\ UNCHANGED <<held, opened, closeTried, cleanup>>
    /\ UNCHANGED <<script, run, si, ai, currentTime, sectionStart, lastActionEnd,
                   sections, result, doc, anims, wall, secWallStart, preFloor,
                   floorSlept, actual, log, missed, failed, prevResult, prevSig, cues>>
    /\ UNCHANGED nonRecordVars

\* the overlay cleanup after the script: destroy() is evaluated in the page unless
\* the page is closed, and whatever it throws is dropped (lines 86-95)
CleanupOverlay ==
    /\ recPc = "script"
    /\ pc = "done"
    /\ \E closed \in BOOLEAN, ok \in BOOLEAN :
         cleanup' = IF closed
                    THEN [cleanup EXCEPT !.outcome = "skipped"]
                    ELSE [calls |-> cleanup.calls + 1,
                          outcome |-> IF ok THEN "destroyed" ELSE "threw"]
    /\ recPc' = "video"
    /\ UNCHANGED <<held, opened, closeTried, recError>>
    /\ UNCHANGED <<schedulerVars, nonRecordVars>>

\* await this.page.video()?.path() (line 98)
VideoPath ==
    /\ recPc = "video"
    /\ \E ok \in BOOLEAN :
         IF ok
         THEN /\ recPc' = "closeContext"
              /\ UNCHANGED recError
         ELSE Caught("video")
    /\ UNCHANGED <<held, opened, closeTried, cleanup>>
    /\ UNCHANGED <<schedulerVars, nonRecordVars>>

\* await this.context.close() (line 101)
CloseContext ==
    /\ recPc = "closeContext"
    /\ closeTried' = closeTried \cup {"context"}
    /\ \E ok \in BOOLEAN :
         IF ok
         THEN /\ recPc' = "closeBrowser"
              /\ UNCHANGED recError
         ELSE Caught("closeContext")
    /\ UNCHANGED <<held, opened, cleanup>>
    /\ UNCHANGED <<schedulerVars, nonRecordVars>>

\* await this.browser.close(), then the fields are set to null (lines 102-106)
CloseBrowser ==
    /\ recPc = "closeBrowser"
    /\ closeTried' = closeTried \cup {"browser"}
    /\ \E ok \in BOOLEAN :
         IF ok
         THEN /\ held' = {}
              /\ recPc' = "rename"
              /\ UNCHANGED recError
         ELSE /\ Caught("closeBrowser")
              /\ UNCHANGED held
    /\ UNCHANGED <<opened, cleanup>>
    /\ UNCHANGED <<schedulerVars, nonRecordVars>>

\* the video file is renamed and record returns (lines 109-120)
Rename ==
    /\ recPc = "rename"
    /\ \E ok \in BOOLEAN :
         IF ok
         THEN /\ recPc' = "returned"
              /\ UNCHANGED recError
         ELSE Caught("rename")
    /\ UNCHANGED <<held, opened, closeTried, cleanup>>
    /\ UNCHANGED <<schedulerVars, nonRecordVars>>

\* a catch block that closes the context only
CatchCloseContextOnly ==
    /\ recPc = "catch"
    /\ closeTried' = IF "context" \in held THEN closeTried \cup {"context"} ELSE closeTried
    /\ recPc' = "thrown"
    /\ UNCHANGED <<held, opened, cleanup, recError>>
    /\ UNCHANGED <<schedulerVars, nonRecordVars>>

\* if (this.context) await this.context.close().catch(() => {}) (line 123)
CatchCloseContext ==
    /\ recPc = "catch"
    /\ closeTried' = IF "context" \in held THEN closeTried \cup {"context"} ELSE closeTried
    /\ recPc' = "catchBrowser"
    /\ UNCHANGED <<held, opened, cleanup, recError>>
    /\ UNCHANGED <<schedulerVars, nonRecordVars>>

\* if (this.browser) await this.browser.close().catch(() => {}); throw error
\* (lines 124-125)
CatchCloseBrowser ==
    /\ recPc = "catchBrowser"
    /\ closeTried' = IF "browser" \in held THEN closeTried \cup {"browser"} ELSE closeTried
    /\ recPc' = "thrown"
    /\ UNCHANGED <<held, opened, cleanup, recError>>
    /\ UNCHANGED <<schedulerVars, nonRecordVars>>

RecordNext ==
    \/ Launch
    \/ NewContext
    \/ NewPage
    \/ InitialGoto
    \/ Inject
    \/ BeginRun
    \/ BeginSection
    \/ Pace
    \/ StartOverlay
    \/ AnimationTick
    \/ OverlayDone
    \/ BeginAction
    \/ EndAction
    \/ Floor
    \/ RecordSection
    \/ ReturnTiming
    \/ ScriptThrows
    \/ CleanupOverlay
    \/ VideoPath
    \/ CloseContext
    \/ CloseBrowser
    \/ Rename
    \/ CatchCloseContext
    \/ CatchCloseBrowser

RecordSpec == RecordInit /\ [][RecordNext]_vars

----------------------------------------------------------------------------
(* Overlay renderer: the DemoOverlay object injected into the page.  An     *)
(* effect call (drawArrow, spotlight, highlightBox, zoom) draws its first   *)
(* frame at once and requests an animation frame for the next one; the     *)
(* browser runs the requested callbacks at every animation frame, in the    *)
(* order they were requested.  An entry of effects holds the call's         *)
(* duration, its startTime, the frames it drew, whether a frame request of  *)
(* it is outstanding, whether its promise resolved, the time of its last    *)
(* frame (endTime, endFrame) and of the one before (prevTime), and the      *)
(* frames it drew after destroy().                                          *)

MaxJobs == 2            \* jobs processed for the project
MaxEffects == 2         \* effect calls made on one overlay

\* options.duration of the calls, and the ms since the last frame at which a
\* call is made
EffectDurations == { 0, 500, 2000 }
CallOffsets == { 0, 400 }

ContinueThrough(elapsed, duration) == elapsed <= duration

\* progress < 1 with progress = Math.min(elapsed / duration, 1) (lines 92, 122)
Continue(elapsed, duration) == elapsed < duration

\* the effects whose next frame is requested
Requested == { i \in DOMAIN effects : effects[i].pending }

OverlayInit ==
    /\ SchedulerInit({ <<>> })
    /\ RenderIdle
    /\ RecordIdle
    /\ OverlayFresh
    /\ WorkerIdle
    /\ CrawlIdle

\* drawArrow, spotlight, highlightBox or zoom is called (lines 72-131, 133-192,
\* 194-266, 268-311): without the element it returns at once; with it the first
\* animate() runs inside the call
EffectCall ==
    /\ ~destroyed
    /\ Len(effects) < MaxEffects
    /\ \E found \in BOOLEAN, duration \in EffectDurations, since \in CallOffsets :
         LET now == clock.now + since
             going == found /\ Continue(0, duration)
         IN  /\ clock' = [clock EXCEPT !.now = now]
             /\ effects' = Append(effects,
                    [found |-> found, duration |-> duration, startTime |-> now,
                     startFrame |-> clock.frame,
                     frames |-> IF found THEN 1 ELSE 0,
                     pending |-> going, resolved |-> ~going,
                     prevTime |-> now, endTime |-> now, endFrame |-> clock.frame,
                     late |-> 0])
             /\ animationFrame' = IF going THEN Len(effects) + 1 ELSE animationFrame
    /\ UNCHANGED <<canvas, destroyed>>
    /\ UNCHANGED nonOverlayVars

\* the animate callback of effect e at time now (lines 90-127)
animate(e, now, frame) ==
    LET elapsed == now - e.startTime
        going == Continue(elapsed, e.duration)
    IN  [e EXCEPT !.frames = e.frames + 1,
                  !.late = e.late + (IF destroyed THEN 1 ELSE 0),
                  !.pending = going,
                  !.resolved = ~going,
                  !.prevTime = e.endTime,
                  !.endTime = now,
                  !.endFrame = frame]

\* an animation frame of the browser: every requested callback runs
AnimationFrame ==
    /\ Requested # {}
    /\ clock' = [now |-> clock.now + TickMs, frame |-> clock.frame + 1]
    /\ effects' = [i \in DOMAIN effects |->
                     IF i \in Requested
                     THEN animate(effects[i], clock'.now, clock'.frame)
                     ELSE effects[i]]
    /\ LET again == { i \in DOMAIN effects : effects'[i].pending }
       IN  animationFrame' =
             IF again = {} THEN animationFrame
             ELSE CHOOSE i \in again : \A j \in again : j <= i
    /\ UNCHANGED <<canvas, destroyed>>
    /\ UNCHANGED nonOverlayVars

\* clear(): cancelAnimationFrame(this.animationFrame) (lines 313-318)
clear(es) ==
    IF animationFrame # 0
    THEN [es EXCEPT ![animationFrame].pending = FALSE]
    ELSE es

\* clear() is called
Clear ==
    /\ ~destroyed
    /\ effects # <<>>
    /\ effects' = clear(effects)
    /\ effects' # effects
    /\ UNCHANGED <<canvas, animationFrame, clock, destroyed>>
    /\ UNCHANGED nonOverlayVars

\* destroy(): clear(), then the canvas is removed (lines 320-325)
Destroy ==
    /\ ~destroyed
    /\ effects' = clear(effects)
    /\ canvas' = FALSE
    /\ destroyed' = TRUE
    /\ UNCHANGED <<animationFrame, clock>>
    /\ UNCHANGED nonOverlayVars

OverlayNext ==
    \/ EffectCall
    \/ AnimationFrame
    \/ Clear
    \/ Destroy

OverlaySpec == OverlayInit /\ [][OverlayNext]_vars

\* the browser keeps running animation frames while a callback is requested
OverlayLiveSpec == OverlaySpec /\ WF_vars(AnimationFrame)

----------------------------------------------------------------------------
(* Worker jobs: processAnalysisJob, processRecordingJob and                *)
(* processRenderingJob.  Each writes the in-progress status, then runs     *)
(* its engine calls and stores their result inside one try block whose     *)
(* catch writes 'failed' and rethrows.  Every database update and every    *)
(* engine call can reject.                                                 *)

JobKinds == { "analysis", "recording", "rendering" }

\* the status a project can have when its job is taken up
StartStatuses == { "draft", "analysis_complete", "completed", "failed" }

\* the status written before the try block
InProgress(kind) ==
    CASE kind = "analysis" -> "analyzing"
      [] kind = "recording" -> "recording"
      [] kind = "rendering" -> "rendering"

\* the engine calls awaited inside the try block, in order
Engines(kind) ==
    CASE kind = "analysis" -> <<"analyzeApp", "generateScript">>
      [] kind = "recording" -> <<"recordDemo">>
      [] kind = "rendering" -> <<"renderDemo">>

\* the row after the update that stores the engines' result; the recording
\* job stores the timing metadata and leaves the status as it is
Stored(kind, row) ==
    CASE kind = "analysis" ->
            [status |-> "analysis_complete", data |-> "analysis,script"]
      [] kind = "recording" -> [row EXCEPT !.data = "timingMetadata"]
      [] kind = "rendering" ->
            [status |-> "completed", data |-> "videoStandardUrl,subtitlesUrl"]

\* what the storing update is logged as
StoredAs(kind) ==
    CASE kind = "analysis" -> "analysis_complete"
      [] kind = "recording" -> "timingMetadata"
      [] kind = "rendering" -> "completed"

\* the error a rejected database update raises
UpdateError(arg) == "update:" \o arg

Logged(op, arg, ok) == Append(jobLog, [op |-> op, arg |-> arg, ok |-> ok])

\* the n-th job, of kind k, as its processor is called
NewJob(k, n) ==
    [kind |-> k, pc |-> "start", step |-> 1, caught |-> "", thrown |-> "", n |-> n]

\* a job of some kind is taken up for a project
WorkerInit ==
    /\ SchedulerInit({ <<>> })
    /\ RenderIdle
    /\ RecordIdle
    /\ OverlayFresh
    /\ CrawlIdle
    /\ job \in { NewJob(k, 1) : k \in JobKinds }
    /\ project \in { [status |-> st, data |-> ""] : st \in StartStatuses }
    /\ jobLog = <<>>

\* the update before the try block; its rejection is the job's
SetInProgress ==
    /\ job.pc = "start"
    /\ \E ok \in BOOLEAN :
        /\ jobLog' = Logged("update", InProgress(job.kind), ok)
        /\ IF ok
           THEN /\ project' = [project EXCEPT !.status = InProgress(job.kind)]
                /\ job' = [job EXCEPT !.pc = "engine"]
           ELSE /\ project' = project
                /\ job' = [job EXCEPT !.pc = "rejected",
                                      !.thrown = UpdateError(InProgress(job.kind))]
    /\ UNCHANGED nonWorkerVars

\* one awaited engine call of the try block
RunEngine ==
    /\ job.pc = "engine"
    /\ LET call == Engines(job.kind)[job.step] IN
       \E ok \in BOOLEAN :
        /\ jobLog' = Logged(call, "", ok)
        /\ job' = IF ~ok THEN [job EXCEPT !.pc = "catch", !.caught = call]
                  ELSE IF job.step < Len(Engines(job.kind))
                       THEN [job EXCEPT !.step = job.step + 1]
                       ELSE [job EXCEPT !.pc = "store"]
    /\ project' = project
    /\ UNCHANGED nonWorkerVars

\* the update that stores the result, still inside the try block
StoreResult ==
    /\ job.pc = "store"
    /\ \E ok \in BOOLEAN :
        /\ jobLog' = Logged("update", StoredAs(job.kind), ok)
        /\ IF ok
           THEN /\ project' = Stored(job.kind, project)
                /\ job' = [job EXCEPT !.pc = "resolved"]
           ELSE /\ project' = project
                /\ job' = [job EXCEPT !.pc = "catch",
                                      !.caught = UpdateError(StoredAs(job.kind))]
    /\ UNCHANGED nonWorkerVars

\* a catch block that throws an error of its own
CatchErrorWrapped ==
    /\ job.pc = "catch"
    /\ \E ok \in BOOLEAN :
        /\ jobLog' = Logged("update", "failed", ok)
        /\ project' = IF ok THEN [project EXCEPT !.status = "failed"] ELSE project
        /\ job' = [job EXCEPT !.pc = "rejected",
                              !.thrown = IF ok THEN "JobFailed"
                                         ELSE UpdateError("failed")]
    /\ UNCHANGED nonWorkerVars

\* the catch block: the 'failed' update is awaited, then the caught error is
\* thrown; a rejection of the update is thrown in its place
CatchError ==
    /\ job.pc = "catch"
    /\ \E ok \in BOOLEAN :
        /\ jobLog' = Logged("update", "failed", ok)
        /\ project' = IF ok THEN [project EXCEPT !.status = "failed"] ELSE project
        /\ job' = [job EXCEPT !.pc = "rejected",
                              !.thrown = IF ok THEN job.caught
                                         ELSE UpdateError("failed")]
    /\ UNCHANGED nonWorkerVars

\* the job has settled and a worker calls the processor of the next job of
\* the project
TakeJob ==
    /\ job.pc \in { "resolved", "rejected" }
    /\ job.n < MaxJobs
    /\ \E k \in JobKinds : job' = NewJob(k, job.n + 1)
    /\ jobLog' = <<>>
    /\ project' = project
    /\ UNCHANGED nonWorkerVars

WorkerNext == SetInProgress \/ RunEngine \/ StoreResult \/ CatchError \/ TakeJob

WorkerSpec == WorkerInit /\ [][WorkerNext]_vars

----------------------------------------------------------------------------
(* Crawler: BrowserAgent.analyzeApp and exploreApp.  URLs are the hrefs of  *)
(* one origin, written as their paths; a site gives, for each page, the    *)
(* links findNavigationLinks returns on it.  Launching, navigating,         *)
(* extracting and closing can each reject.                                  *)

maxDepth == 1             \* config.maxDepth
maxPagesPerDomain == 3    \* config.maxPagesPerDomain
LinkLimit == 5            \* links.slice(0, 5)

Origin == "http://app"

Paths == { "/", "/a", "/a/", "/b", "/c", "/d", "/e", "/f" }

\* origin and pathname without one trailing slash; the origin when that is empty
normalizeUrl(url) ==
    LET full == Origin \o url
        stripped == IF SubSeq(full, Len(full), Len(full)) = "/"
                    THEN SubSeq(full, 1, Len(full) - 1)
                    ELSE full
    IN  IF stripped = "" THEN Origin ELSE stripped

\* the links the start page, /a and /b can show
RootLinks == { <<>>, <<"/a">>, <<"/a", "/a/", "/">>,
               <<"/a", "/b", "/c", "/d", "/e", "/f">> }
ALinks == { <<>>, <<"/b">>, <<"/", "/b", "/c">> }
BLinks == { <<>>, <<"/c">> }

Sites ==
    { [p \in Paths |-> CASE p = "/" -> r
                         [] p \in { "/a", "/a/" } -> a
                         [] p = "/b" -> b
                         [] OTHER -> <<>>] :
        r \in RootLinks, a \in ALinks, b \in BLinks }

StartUrl == "/"

\* links.slice(0, 5)
FirstLinks(links) == SubSeq(links, 1, IF Len(links) < LinkLimit THEN Len(links) ELSE LinkLimit)

\* a call of exploreApp: its arguments, its position, the links still to
\* follow, its routes array, and the number of the call and of its caller
Call(url, depth, parent, id) ==
    [url |-> url, depth |-> depth, stage |-> "enter", links |-> <<>>,
     routes |-> <<>>, parent |-> parent, id |-> id]

Top == frames[Len(frames)]

\* the stack after the innermost call returned rs to its caller (line 187)
Returning(rs) ==
    IF Len(frames) = 1 THEN <<>>
    ELSE [SubSeq(frames, 1, Len(frames) - 1) EXCEPT
            ![Len(frames) - 1].routes = @ \o rs]

\* analyzeApp is called on a freshly constructed agent
CrawlInit ==
    /\ SchedulerInit({ <<>> })
    /\ RenderIdle
    /\ RecordIdle
    /\ OverlayFresh
    /\ WorkerIdle
    /\ AgentFresh
    /\ crawlPc = "init"
    /\ site \in Sites

\* init() (lines 54-71), called outside the try block of analyzeApp: a
\* rejection leaves what was opened before it open
AgentInit ==
    /\ crawlPc = "init"
    /\ ~agent.page
    /\ \E failure \in { "none", "launch", "newContext", "newPage", "mkdir" } :
        /\ agent' = [browser |-> failure # "launch",
                     context |-> failure \notin { "launch", "newContext" },
                     page |-> failure \notin { "launch", "newContext", "newPage" }]
        /\ running' = [browser |-> IF agent'.browser THEN "open" ELSE "none",
                       context |-> IF agent'.context THEN "open" ELSE "none"]
        /\ crawlPc' = IF failure = "none" THEN "goto" ELSE "rejected"
        /\ crawlError' = IF failure = "none" THEN "" ELSE failure
    /\ UNCHANGED <<visitedUrls, frames, pageUrl, site, explored, routes>>
    /\ UNCHANGED nonCrawlVars

\* the state is reset and the start URL is loaded (lines 89-99); then
\* exploreApp(url, 0) is called (line 102)
StartGoto ==
    /\ crawlPc = "goto"
    /\ visitedUrls' = {}
    /\ \E ok \in BOOLEAN :
        IF ok
        THEN /\ pageUrl' = StartUrl
             /\ crawlPc' = "explore"
             /\ frames' = <<Call(StartUrl, 0, 0, 1)>>
             /\ explored' = <<[url |-> StartUrl, depth |-> 0, parent |-> 0,
                               visited |-> FALSE, outcome |-> "called"]>>
             /\ crawlError' = crawlError
        ELSE /\ crawlPc' = "closing"
             /\ crawlError' = "goto"
             /\ UNCHANGED <<pageUrl, frames, explored>>
    /\ UNCHANGED <<agent, running, site, routes>>
    /\ UNCHANGED nonCrawlVars

\* the guards of exploreApp (lines 133-145): the call returns [] or marks
\* its URL visited
EnterExplore ==
    /\ crawlPc = "explore"
    /\ frames # <<>>
    /\ Top.stage = "enter"
    /\ IF \/ Top.depth > maxDepth
          \/ Cardinality(visitedUrls) >= maxPagesPerDomain
          \/ normalizeUrl(Top.url) \in visitedUrls
       THEN /\ frames' = Returning(<<>>)
            /\ explored' = [explored EXCEPT ![Top.id].outcome = "skipped"]
            /\ visitedUrls' = visitedUrls
       ELSE /\ visitedUrls' = visitedUrls \cup { normalizeUrl(Top.url) }
            /\ frames' = [frames EXCEPT ![Len(frames)].stage = "visit"]
            /\ explored' = [explored EXCEPT ![Top.id].visited = TRUE]
    /\ UNCHANGED <<agent, running, crawlPc, pageUrl, site, routes, crawlError>>
    /\ UNCHANGED nonCrawlVars

\* the try block up to the links (lines 152-182): navigation when the page
\* is elsewhere, screenshot, extraction, the route, the links; an error at
\* any of them is caught and logged (189-191) and the call returns
VisitPage ==
    /\ crawlPc = "explore"
    /\ frames # <<>>
    /\ Top.stage = "visit"
    /\ \E failure \in { "none", "goto", "extract", "links" } :
        /\ failure = "goto" => pageUrl # Top.url
        /\ pageUrl' = IF failure = "goto" THEN pageUrl ELSE Top.url
        /\ frames' = [frames EXCEPT
              ![Len(frames)].stage = IF failure = "none" THEN "loop" ELSE "return",
              ![Len(frames)].routes =
                    IF failure \in { "goto", "extract" } THEN <<>>
                    ELSE <<normalizeUrl(Top.url)>>,
              ![Len(frames)].links =
                    IF failure = "none" THEN FirstLinks(site[Top.url]) ELSE <<>>]
        /\ explored' = [explored EXCEPT ![Top.id].outcome =
                            IF failure = "none" THEN "listed" ELSE failure]
    /\ UNCHANGED <<agent, running, crawlPc, visitedUrls, site, routes, crawlError>>
    /\ UNCHANGED nonCrawlVars

\* one turn of the loop over links.slice(0, 5): exploreApp(link, depth + 1)
\* is called (lines 185-186)
FollowLink ==
    /\ crawlPc = "explore"
    /\ frames # <<>>
    /\ Top.stage = "loop"
    /\ Top.links # <<>>
    /\ frames' = Append([frames EXCEPT ![Len(frames)].links = Tail(Top.links)],
                        Call(Head(Top.links), Top.depth + 1, Top.id,
                             Len(explored) + 1))
    /\ explored' = Append(explored,
                          [url |-> Head(Top.links), depth |-> Top.depth + 1,
                           parent |-> Top.id, visited |-> FALSE,
                           outcome |-> "called"])
    /\ UNCHANGED <<agent, running, crawlPc, visitedUrls, pageUrl, site, routes,
                   crawlError>>
    /\ UNCHANGED nonCrawlVars

\* the call returns its routes (line 193), to the loop of its caller or to
\* analyzeApp
ReturnExplore ==
    /\ crawlPc = "explore"
    /\ frames # <<>>
    /\ \/ Top.stage = "return"
       \/ Top.stage = "loop" /\ Top.links = <<>>
    /\ frames' = Returning(Top.routes)
    /\ IF Len(frames) = 1
       THEN routes' = Top.routes /\ crawlPc' = "features"
       ELSE UNCHANGED <<routes, crawlPc>>
    /\ UNCHANGED <<agent, running, visitedUrls, pageUrl, site, explored, crawlError>>
    /\ UNCHANGED nonCrawlVars

\* features and flows are computed from the routes and the analysis is
\* about to be returned (lines 105-126)
ExtractFeatures ==
    /\ crawlPc = "features"
    /\ crawlPc' = "closing"
    /\ UNCHANGED <<agent, running, visitedUrls, frames, pageUrl, site, explored,
                   routes, crawlError>>
    /\ UNCHANGED nonCrawlVars

\* the finally block (127-129) awaits close() (73-79): a rejection of
\* context.close() leaves browser.close() uncalled and the fields set; a
\* rejection of either replaces what the try block threw
Close ==
    /\ crawlPc = "closing"
    /\ \E failure \in { "none", "context.close", "browser.close" } :
        /\ running' = [context |-> IF failure = "context.close" THEN "open" ELSE "closed",
                       browser |-> CASE failure = "context.close" -> "open"
                                     [] failure = "browser.close" -> "closeFailed"
                                     [] OTHER -> "closed"]
        /\ agent' = IF failure = "none"
                    THEN [browser |-> FALSE, context |-> FALSE, page |-> FALSE]
                    ELSE agent
        /\ crawlError' = IF failure = "none" THEN crawlError ELSE failure
        /\ crawlPc' = IF crawlError' = "" THEN "resolved" ELSE "rejected"
    /\ UNCHANGED <<visitedUrls, frames, pageUrl, site, explored, routes>>
    /\ UNCHANGED nonCrawlVars

CrawlNext ==
    \/ AgentInit
    \/ StartGoto
    \/ EnterExplore
    \/ VisitPage
    \/ FollowLink
    \/ ReturnExplore
    \/ ExtractFeatures
    \/ Close

CrawlSpec == CrawlInit /\ [][CrawlNext]_vars

\* analyzeApp is a chain of awaits: each step is taken once it can be
CrawlLiveSpec == CrawlSpec /\ WF_vars(CrawlNext)

----------------------------------------------------------------------------
(* Properties *)

Returned == result # <<>>

ExampleScript ==
    <<[id |-> "s1", name |-> "s1", narration |-> Hello, duration |-> 5,
       actions |-> <<>>]>>

\* C1: the timing metadata is contiguous: each section ends where the next one
\* starts, and totalDuration is the end of the last section (0 when there is none)
C1_Contiguous ==
    /\ \A i \in 1..(Len(sections) - 1) :
          sections[i].endTime = sections[i + 1].startTime
    /\ Returned =>
          /\ result[1].sections = sections
          /\ result[1].totalDuration =
                IF sections = <<>> THEN 0 ELSE sections[Len(sections)].endTime

C1_Witness ==
    /\ Returned
    /\ Len(sections) >= 2
    /\ \A i \in DOMAIN sections : sections[i].endTime > sections[i].startTime

\* C2: one SectionTiming per script section, in script order, with the section's
\* id and narration, and startTime <= endTime in each
C2_OnePerSection ==
    /\ Len(sections) <= Len(script)
    /\ \A i \in DOMAIN sections :
          /\ sections[i].id = script[i].id
          /\ sections[i].narration = script[i].narration
          /\ sections[i].startTime <= sections[i].endTime
    /\ Returned => Len(result[1].sections) = Len(script)

C2_Witness ==
    /\ Returned
    /\ Len(script) >= 2
    /\ \E i \in DOMAIN script : script[i].duration = 0 /\ script[i].actions = <<>>
    /\ \E i \in DOMAIN script : script[i].actions # <<>>

\* C3: every recorded section lasts at least its nominal duration, with or without
\* actions, and the scheduler slept for exactly the time missing to that floor
C3_NominalFloor ==
    \A i \in DOMAIN sections :
        /\ sections[i].endTime - sections[i].startTime >= script[i].duration * 1000
        /\ actual[i].floorSlept =
              Max(0, script[i].duration * 1000
                     - (actual[i].preFloor - sections[i].startTime))

C3_Witness ==
    /\ Returned
    /\ \E i \in DOMAIN sections :
          /\ script[i].actions # <<>>
          /\ actual[i].floorSlept > 0
    /\ \E i \in DOMAIN sections :
          /\ script[i].actions = <<>>
          /\ actual[i].floorSlept > 0

\* C4: the recorded start and end of every section are the wall-clock times at
\* which its execution began and ended
C4_ActualTimes ==
    \A i \in DOMAIN sections :
        /\ sections[i].startTime = actual[i].startTime
        /\ sections[i].endTime = actual[i].endTime

KeyBefore(a, b) == a.si < b.si \/ (a.si = b.si /\ a.ai < b.ai)

\* steps start in script order, an action of a later section only after the
\* earlier section was recorded
C5_Order ==
    /\ \A i, j \in DOMAIN log :
          i < j => /\ ~KeyBefore(log[j], log[i])
                   /\ (log[i].kind = log[j].kind => KeyBefore(log[i], log[j]))
                   /\ (log[i].kind = "record" => log[i].si < log[j].si)
    /\ \A j \in DOMAIN log :
          log[j].kind # "record" =>
             /\ Len(sections) >= log[j].si - 1
             /\ \A s \in 1..(log[j].si - 1) :
                   \E i \in 1..(j - 1) : log[i].kind = "record" /\ log[i].si = s

\* C5: steps are executed strictly sequentially and in script order, and the
\* cursor currentTime never decreases during a run
C5_Sequential ==
    /\ []C5_Order
    /\ [][pc # "start" => currentTime' >= currentTime]_vars

C5_Witness ==
    /\ Returned
    /\ Len(script) >= 2
    /\ script[2].actions # <<>>
    /\ \E j \in DOMAIN log : log[j].kind = "action" /\ log[j].si = 2

\* C6: no overlay effect is in flight while the action executor runs or while
\* another overlay call starts: at most one animation is in flight
C6_OverlayAwaited ==
    /\ Len(anims) <= 1
    /\ pc \in {"actionWait", "overlay", "action"} => anims = <<>>

C6_Witness ==
    /\ pc = "actionWait"
    /\ si = 1
    /\ ai = 1
    /\ CurAction.highlightStyle = "arrow"
    /\ wall >= DefaultOverlayDuration
    /\ ~missed
    /\ failed = {}

\* C7: a selector that matches no element raises nothing out of the scheduler,
\* and the timing metadata is the one of a run in which every element exists
C7_MissingSelector ==
    /\ pc # "aborted"
    /\ (Returned /\ prevSig # <<>> /\ ~prevSig[1].missed /\ missed)
          => result = prevResult

C7_Witness ==
    /\ Returned
    /\ prevSig # <<>>
    /\ ~prevSig[1].missed
    /\ ~prevSig[1].failed
    /\ missed
    /\ failed = {}
    /\ result[1].totalDuration > 0
    /\ \E i \in DOMAIN script : \E a \in DOMAIN script[i].actions :
          script[i].actions[a].type = "click"

\* C8: no failure of an overlay call or of an action aborts the run: every action
\* of every section is still executed and a TimingMetadata is still returned
C8_NoAbort ==
    /\ pc # "aborted"
    /\ \A j \in DOMAIN log :
          log[j].kind = "record" =>
             \A a \in DOMAIN script[log[j].si].actions :
                \E i \in 1..(j - 1) :
                   log[i] = [kind |-> "action", si |-> log[j].si, ai |-> a]
    /\ Returned => Len(result[1].sections) = Len(script)
    /\ (pc = "pace" /\ ai > 1) =>
          \E i \in DOMAIN log : log[i] = [kind |-> "action", si |-> si, ai |-> ai - 1]

C8_Witness ==
    /\ Returned
    /\ {"overlay", "navigate"} \subseteq failed
    /\ Len(script[1].actions) = 2
    /\ script[1].actions[1].type = "navigate"

\* C9: a second run on the same script whose steps have the same outcomes as in
\* the first run returns the same TimingMetadata as the first
C9_Idempotent ==
    (Returned /\ prevSig = <<Sig>>) => result = prevResult

C9_Witness ==
    /\ Returned
    /\ prevSig = <<Sig>>
    /\ result[1].totalDuration > 0
    /\ Len(result[1].sections) >= 2

\* C10: the example script (one section s1 of 6 words, 5 seconds, no actions)
\* yields the window 0..5000, totalDuration 5000, and exactly one cue, with
\* index 1, spanning 00:00:00,000 --> 00:00:05,000
C10_Example ==
    script = ExampleScript =>
       /\ Returned =>
             /\ result[1].totalDuration = 5000
             /\ Len(result[1].sections) = 1
             /\ result[1].sections[1].id = "s1"
             /\ result[1].sections[1].startTime = 0
             /\ result[1].sections[1].endTime = 5000
       /\ pc = "captioned" =>
             /\ Len(cues) = 1
             /\ cues[1].index = 1
             /\ cues[1].start = "00:00:00,000"
             /\ cues[1].end = "00:00:05,000"

C10_Witness ==
    /\ script = ExampleScript
    /\ pc = "captioned"
    /\ Len(Split(script[1].narration)) = 6

\* the action a logged step belongs to
ActionOf(step) == script[step.si].actions[step.ai]

\* a navigate action with a URL was executed earlier in this run
NavigatedBefore ==
    \E i \in DOMAIN log :
        /\ log[i].kind = "action"
        /\ ActionOf(log[i]).type = "navigate"
        /\ ActionOf(log[i]).value # <<>>
        /\ (log[i].si # si \/ log[i].ai # ai)

\* C22: after a navigate action the overlay is attached to the new document
\* before the next overlay call: no overlay call that follows a navigate
\* action finds the document without an overlay instance
C22_ReattachedAfterNavigate ==
    (pc = "overlay" /\ NavigatedBefore) => doc.overlay

\* the action executed last in the current section
PrevAction == CurSection.actions[ai - 1]

\* C26: after an action, lastActionEnd = sectionStart + timing + d, where d is
\* the action's highlightDuration when it has one, 0 included, and 1000 when it
\* has none, and currentTime is not below lastActionEnd.
C26_NominalEnd ==
    (pc = "pace" /\ ai > 1) =>
        /\ lastActionEnd = sectionStart + PrevAction.timing +
                              (IF PrevAction.highlightDuration # <<>>
                               THEN PrevAction.highlightDuration[1] ELSE 1000)
        /\ currentTime >= lastActionEnd

\* C27: the pacing step before an action suspends for exactly
\* timing - (lastActionEnd - sectionStart) ms when that is positive, and for no
\* time at all otherwise.
C27_PacingWait ==
    [][(pc = "pace" /\ pc' \in {"overlay", "action"}) =>
          LET waitTime == CurAction.timing - (lastActionEnd - sectionStart)
          IN  wall' - wall = IF waitTime > 0 THEN waitTime ELSE 0]_vars

\* a wait action at offset 3000 is reached after a click whose nominal end is
\* 1000 ms into the section: the pacing step has slept the 2000 ms between
C27_Witness ==
    /\ pc = "action"
    /\ ai = 2
    /\ CurAction.timing = 3000
    /\ lastActionEnd = sectionStart + 1000
    /\ wall >= secWallStart + 2000

\* the steps of the run that called executeOverlay for action ai of section si
OverlayCalls(s, a) ==
    { k \in DOMAIN log : log[k] = [kind |-> "overlay", si |-> s, ai |-> a] }

\* C28: executeOverlay is called for an action exactly when its style is arrow,
\* spotlight, box or zoom and it has a selector; the effect it starts has the
\* action's highlightDuration, or 2000 when the action has none, and the method
\* of the style.
C28_OverlayInvocation ==
    /\ \A k \in DOMAIN log :
         log[k].kind = "action" =>
           LET action == ActionOf(log[k])
           IN  OverlayCalls(log[k].si, log[k].ai) # {} <=>
                 /\ action.highlightStyle \in {"arrow", "spotlight", "box", "zoom"}
                 /\ action.selector # ""
    /\ (pc = "overlayWait" /\ anims # <<>> /\ anims[1].elapsed = 0) =>
         /\ anims[1].duration = IF CurAction.highlightDuration # <<>>
                                 THEN CurAction.highlightDuration[1] ELSE 2000
         /\ anims[1].method =
               CASE CurAction.highlightStyle = "arrow" -> "drawArrow"
                 [] CurAction.highlightStyle = "spotlight" -> "spotlight"
                 [] CurAction.highlightStyle = "box" -> "highlightBox"
                 [] CurAction.highlightStyle = "zoom" -> "zoom"

----------------------------------------------------------------------------
(* Properties of the render pipeline (RenderSpec) *)

\* combineAudio has been entered: generateNarration went through every section
Combining == nk > Len(renderScript) /\ rpc # "narration"

HasTrack == track # <<>>

\* C11: with zero segments the track that audio alignment returns holds only
\* silence (no clip) and lasts exactly timing.totalDuration
C11_SilentWhenNoSegments ==
    (Combining /\ Len(audioSegments) = 0 /\ HasTrack) =>
        /\ track[1].kind = "silent"
        /\ track[1].clips = <<>>
        /\ track[1].duration = timingMetadata.totalDuration

C11_Witness ==
    /\ Combining
    /\ Len(audioSegments) = 0
    /\ HasTrack
    /\ rpc = "merge"
    /\ timingMetadata.totalDuration = 10000

\* the timing sections whose id is id
TimedAs(id) ==
    { k \in DOMAIN timingMetadata.sections : timingMetadata.sections[k].id = id }

\* C12: in the track audio alignment returns, every clip starts at the
\* startTime of its section, for any number of segments >= 1, one included
C12_ClipsAtSectionStart ==
    HasTrack =>
        \A c \in DOMAIN track[1].clips :
            \A k \in TimedAs(track[1].clips[c].sectionId) :
                track[1].clips[c].onset = timingMetadata.sections[k].startTime

\* C13: with two or more segments every mixed input is delayed by the
\* startTime of the timing section that has its sectionId, and the clips of the
\* mixed track start at these delays: with sections a and b starting at 0 and
\* 5000 the clip of b starts 5000 ms after the clip of a
C13_DelayIsSectionStart ==
    /\ \A i \in DOMAIN inputs :
          \E k \in TimedAs(inputs[i].sectionId) :
              inputs[i].delayMs = timingMetadata.sections[k].startTime
    /\ (HasTrack /\ track[1].kind = "mix") =>
          /\ Len(track[1].clips) = Len(inputs)
          /\ \A c \in DOMAIN track[1].clips :
                /\ track[1].clips[c].sectionId = inputs[c].sectionId
                /\ track[1].clips[c].onset = inputs[c].delayMs
          /\ (Len(track[1].clips) = 2 /\ timingMetadata = TimingOf(<<"a", "b">>, 5000)) =>
                track[1].clips[2].onset - track[1].clips[1].onset = 5000

C13_Witness ==
    /\ HasTrack
    /\ track[1].kind = "mix"
    /\ Len(audioSegments) = 2
    /\ Len(track[1].clips) = 2
    /\ timingMetadata = TimingOf(<<"a", "b">>, 5000)
    /\ timingMetadata.totalDuration = 10000

\* the segments whose sectionId is the id of a timing section
Matching == { i \in DOMAIN audioSegments : TimedAs(audioSegments[i].sectionId) # {} }

\* C14: with two or more segments, a segment whose sectionId is the id of no
\* timing section is dropped: the mix gets one input per matching segment and
\* its track holds these; when none is left no mix runs and the track is the
\* silent track of timing.totalDuration
C14_UnmatchedDropped ==
    (Combining /\ Len(audioSegments) >= 2) =>
        /\ Len(inputs) = Cardinality(Matching)
        /\ \A i \in DOMAIN inputs : TimedAs(inputs[i].sectionId) # {}
        /\ (HasTrack /\ ~mixFailed) =>
              IF Matching = {}
              THEN /\ track[1].kind = "silent"
                   /\ track[1].duration = timingMetadata.totalDuration
              ELSE /\ track[1].kind = "mix"
                   /\ Len(track[1].clips) = Cardinality(Matching)
        /\ Matching = {} => rpc # "mix"

C14_Witness ==
    /\ Len(audioSegments) = 2
    /\ Cardinality(Matching) = 1
    /\ HasTrack
    /\ track[1].kind = "mix"
    /\ Len(track[1].clips) = 1

C16_NeverAbortsForAudio ==
    /\ renderError \notin { "copy", "mix", "silent" }
    /\ (Combining /\ rpc \notin { "mix", "silent" }) => HasTrack

\* C17: a settled render has produced the final video, or has failed with the
\* error of the merge
C17_AssetUnlessMergeFails ==
    rpc \in { "done", "failed" } => (finalVideo # <<>> \/ renderError = "merge")

----------------------------------------------------------------------------
(* Properties of the caption segmenter (CaptionSpec) *)

\* the words of a text whose words are separated by single spaces
WordCount(text) == Cardinality({ i \in DOMAIN text : text[i] = " " }) + 1

\* the script section a timing section is matched with, if any
Matched(k) == FindSection(renderScript, timingMetadata.sections[k].id)

\* timing section k has a script section with narration
Producing(k) == Matched(k) # <<>> /\ Matched(k)[1].narration # <<>>

\* the cues written for timing section k, in the order written
CuesOf(k) ==
    LET mine(cue) == cue.sectionId = timingMetadata.sections[k].id
    IN  SelectSeq(srt, mine)

\* C18: a matched section whose narration has N words gets ceil(N/12) cues of
\* 12 words each, the last one holding the rest; cue indices start at 1 and
\* grow by 1 through the whole file, not per section
C18_CueCount ==
    rpc = "done" =>
        /\ \A i \in DOMAIN srt : srt[i].index = i
        /\ \A k \in DOMAIN timingMetadata.sections :
              Producing(k) =>
                 LET N == WordCount(Matched(k)[1].narration)
                     n == (N + 11) \div 12
                 IN  /\ Len(CuesOf(k)) = n
                     /\ \A j \in 1..n :
                           WordCount(CuesOf(k)[j].text) =
                              IF j < n THEN 12 ELSE N - 12 * (n - 1)

C18_Witness ==
    /\ rpc = "done"
    /\ Len(timingMetadata.sections) = 2
    /\ Producing(1)
    /\ Producing(2)
    /\ WordCount(Matched(1)[1].narration) = 25
    /\ WordCount(Matched(2)[1].narration) = 13
    /\ Len(srt) = 5
    /\ srt[4].index = 4
    /\ srt[4].sectionId = timingMetadata.sections[2].id

\* C19: the cues of a section tile its window: the first starts at startTime,
\* each ends where the next starts, the last ends at endTime, and every cue
\* lies within [startTime, endTime] (what slices of the equal length
\* (endTime - startTime) / chunkCount laid end to end from startTime give)
C19_Tiling ==
    rpc = "done" =>
        \A k \in DOMAIN timingMetadata.sections :
            Producing(k) =>
               LET st == timingMetadata.sections[k]
                   mine == CuesOf(k)
                   n == Len(mine)
               IN  /\ mine[1].start = formatSrtTime(FromInt(st.startTime))
                   /\ mine[n].end = formatSrtTime(FromInt(st.endTime))
                   /\ \A j \in 1..(n - 1) : mine[j].end = mine[j + 1].start
                   /\ \A j \in 1..n :
                         /\ st.startTime <= mine[j].startMs
                         /\ mine[j].endMs <= st.endTime

\* C20: a timing section without narration, or matched by no script section,
\* gets no cue and takes no index: the indices of the cues written are
\* 1, 2, 3, ... without a gap
C20_SkippedTakeNoIndex ==
    rpc = "done" =>
        /\ \A k \in DOMAIN timingMetadata.sections :
              ~Producing(k) => CuesOf(k) = <<>>
        /\ srt # <<>> => srt[1].index = 1
        /\ \A i \in 1..(Len(srt) - 1) : srt[i + 1].index = srt[i].index + 1

C20_Witness ==
    /\ rpc = "done"
    /\ Len(timingMetadata.sections) = 2
    /\ ~Producing(1)
    /\ Producing(2)
    /\ srt # <<>>
    /\ srt[1].sectionId = timingMetadata.sections[2].id
    /\ srt[1].index = 1

----------------------------------------------------------------------------
(* Properties of formatSrtTime (FormatSpec) *)

IsDigitAt(text, i) == \E d \in 1..10 : SubSeq(text, i, i) = Digits[d]

DigitAt(text, i) == (CHOOSE d \in 1..10 : SubSeq(text, i, i) = Digits[d]) - 1

\* the number written at positions from..to of text
RECURSIVE Field(_, _, _)
Field(text, from, to) ==
    IF to < from THEN 0 ELSE 10 * Field(text, from, to - 1) + DigitAt(text, to)

\* text is HH:MM:SS,mmm and its fields add up to ms
Stamps(text, ms) ==
    /\ Len(text) = 12
    /\ \A i \in { 1, 2, 4, 5, 7, 8, 10, 11, 12 } : IsDigitAt(text, i)
    /\ SubSeq(text, 3, 3) = ":"
    /\ SubSeq(text, 6, 6) = ":"
    /\ SubSeq(text, 9, 9) = ","
    /\ Field(text, 4, 5) \in 0..59
    /\ Field(text, 7, 8) \in 0..59
    /\ Field(text, 10, 12) \in 0..999
    /\ Field(text, 1, 2) * 3600000 + Field(text, 4, 5) * 60000
          + Field(text, 7, 8) * 1000 + Field(text, 10, 12) = ms

\* C21: formatSrtTime writes an integer ms below 100 hours as HH:MM:SS,mmm
\* with 2, 2, 2 and 3 digits, minutes and seconds in 0..59, milliseconds in
\* 0..999, and the fields add up to ms again
C21_RoundTrip ==
    rpc = "done" =>
        \A i \in DOMAIN srt :
            /\ Stamps(srt[i].start, timingMetadata.sections[i].startTime)
            /\ Stamps(srt[i].end, timingMetadata.sections[i].endTime)

C21_Witness ==
    /\ rpc = "done"
    /\ Len(srt) = 2
    /\ timingMetadata.sections[2].startTime = 3661001
    /\ timingMetadata.sections[2].endTime = 100 * 3600000 - 1
    /\ srt[2].start = "01:01:01,001"
    /\ srt[2].end = "99:59:59,999"

----------------------------------------------------------------------------
(* Properties of the recording session *)

----------------------------------------------------------------------------
(* Properties of generateNarration *)

\* the sections visited so far whose synthesis produced a clip
Clipped == { k \in DOMAIN narrated : narrated[k].outcome = "clip" }

\* the position among the segments of the clip of section k
SegmentOf(k) == Cardinality({ m \in Clipped : m <= k })

\* C24: a section whose synthesis fails gets no AudioSegment, a section with
\* empty narration gets none either, every section of the script is still
\* visited whatever failed before it, and the segments are those of the sections
\* that succeeded, in script order.
C24_FailuresIsolated ==
    /\ Len(audioSegments) = Cardinality(Clipped)
    /\ \A k \in Clipped : audioSegments[SegmentOf(k)].sectionId = renderScript[k].id
    /\ \A k \in DOMAIN narrated :
         /\ Unnarrated(renderScript[k]) <=> narrated[k].outcome = "empty"
         /\ narrated[k].outcome \in {"empty", "failed"} =>
               \A j \in DOMAIN audioSegments :
                 audioSegments[j].sectionId # renderScript[k].id
    /\ rpc # "narration" => Len(narrated) = Len(renderScript)
    /\ renderError # "narration"

\* the first section failed and the second one still got its segment
C24_Witness ==
    /\ Combining
    /\ Len(narrated) = 2
    /\ narrated[1].outcome = "failed"
    /\ narrated[2].outcome = "clip"
    /\ Len(audioSegments) = 1
    /\ audioSegments[1].sectionId = renderScript[2].id

\* C25: a clip whose duration probe failed still has its AudioSegment, with
\* duration 5000, and generateNarration does not reject.
C25_ProbeFailureDefaults ==
    /\ \A k \in Clipped :
         narrated[k].probeFailed =>
           /\ SegmentOf(k) \in DOMAIN audioSegments
           /\ audioSegments[SegmentOf(k)].sectionId = renderScript[k].id
           /\ audioSegments[SegmentOf(k)].duration = 5000
    /\ (\E k \in Clipped : narrated[k].probeFailed) => renderError # "narration"

\* the probe of the only clip failed and render went on with a 5000 ms segment
C25_Witness ==
    /\ Combining
    /\ Clipped = {1}
    /\ narrated[1].probeFailed
    /\ audioSegments = <<[sectionId |-> renderScript[1].id, duration |-> 5000]>>

----------------------------------------------------------------------------
(* Properties of the overlay renderer *)

\* effect i drew on every animation frame from its call to frame
DrewEveryFrame(i, frame) == effects[i].frames = frame - effects[i].startFrame + 1

\* what holds of the effect calls made so far
EffectFrames ==
    \A i \in DOMAIN effects :
      LET e == effects[i]
      IN  /\ ~e.found => (e.resolved /\ e.frames = 0 /\ e.endTime = e.startTime)
          /\ (e.found /\ e.pending) =>
               /\ ~e.resolved
               /\ DrewEveryFrame(i, clock.frame)
               /\ e.endTime - e.startTime < e.duration
          /\ (e.found /\ e.resolved) =>
               /\ DrewEveryFrame(i, e.endFrame)
               /\ e.endTime - e.startTime >= e.duration
               /\ e.frames > 1 => e.prevTime - e.startTime < e.duration

\* effect i is in flight and its next frame is requested
InFlight(i) == i \in DOMAIN effects /\ effects[i].pending

\* the promise of effect i has resolved
Resolved(i) == i \in DOMAIN effects /\ effects[i].resolved

\* the frame request of effect i was cancelled by clear() or destroy()
Cancelled(i) == i \in DOMAIN effects /\ ~effects[i].pending /\ ~effects[i].resolved

C30_DestroyStopsFrames ==
    destroyed =>
      /\ ~canvas
      /\ \A i \in DOMAIN effects : ~effects[i].pending /\ effects[i].late = 0

----------------------------------------------------------------------------
(* Properties of the single-segment path and of the merge (RenderSpec) *)

\* C31: with exactly one segment the track combineAudio returns is that clip
\* alone, starting at 0 whatever the startTime of its section and whether or not
\* a timing section has its sectionId, and the track lasts as long as the clip.
C31_SingleSegmentCopied ==
    (Combining /\ Len(audioSegments) = 1 /\ HasTrack) =>
        /\ track[1].kind = "copy"
        /\ track[1].clips = <<[sectionId |-> audioSegments[1].sectionId, onset |-> 0,
                                duration |-> audioSegments[1].duration]>>
        /\ track[1].duration = audioSegments[1].duration

\* the only clip belongs to a section that starts at 5000 and is copied undelayed
C31_Witness ==
    /\ Combining
    /\ Len(audioSegments) = 1
    /\ HasTrack
    /\ \E k \in TimedAs(audioSegments[1].sectionId) :
         timingMetadata.sections[k].startTime = 5000
    /\ track[1].clips[1].onset = 0

\* C32: when the merge fails render rejects with its error: there is no final
\* video and the subtitles are not written; the subtitles are generated only
\* with the final video in hand.
C32_MergeFailureFatal ==
    /\ renderError = "merge" => (rpc = "failed" /\ finalVideo = <<>> /\ srt = <<>>)
    /\ rpc \in { "subtitles", "done" } => (finalVideo # <<>> /\ renderError = "")

\* the merge of a mixed track failed and render has rejected
C32_Witness ==
    /\ rpc = "failed"
    /\ renderError = "merge"
    /\ HasTrack
    /\ track[1].kind = "mix"
    /\ finalVideo = <<>>

----------------------------------------------------------------------------
(* Further properties of the scheduler (Spec) *)

\* C33: a second run on the same script returns the TimingMetadata of the first
\* run, whatever the outcomes of the steps of the two runs (selector found or
\* not, step failed or not) and however long the steps took.
C33_FunctionOfScript ==
    (Returned /\ prevResult # <<>>) => result = prevResult

\* the two runs differ in what their steps met and return the same timing
C33_Witness ==
    /\ Returned
    /\ prevResult # <<>>
    /\ prevSig # <<Sig>>
    /\ result = prevResult
    /\ result[1].totalDuration > 0

----------------------------------------------------------------------------
(* Length and layout of the aligned track (RenderSpec) *)

\* C34: the track combineAudio returns lasts at least timing.totalDuration,
\* for every set of segments and every timing.
C34_TrackCoversTimeline ==
    HasTrack => track[1].duration >= timingMetadata.totalDuration

\* C35: in the mixed track the clips of two sections do not overlap: the clip
\* that starts first has ended when the other one starts.
C35_ClipsDisjoint ==
    (HasTrack /\ track[1].kind = "mix") =>
        \A i, j \in DOMAIN track[1].clips :
            track[1].clips[i].onset < track[1].clips[j].onset =>
                track[1].clips[i].onset + track[1].clips[i].duration
                    <= track[1].clips[j].onset

----------------------------------------------------------------------------
(* Captions against narration (RenderSpec) *)

\* the cues written for the script section at position k
CuesFor(k) == { c \in DOMAIN srt : srt[c].sectionId = renderScript[k].id }

\* C36: in a finished render, a section of the script that has a timing section
\* has caption cues exactly when its narration was given to the synthesis; a
\* narration of spaces only gets neither a clip nor a cue.
C36_SameGate ==
    rpc = "done" =>
        \A k \in DOMAIN renderScript :
            TimedAs(renderScript[k].id) # {} =>
                (CuesFor(k) # {} <=> narrated[k].outcome # "empty")

----------------------------------------------------------------------------
(* The pacing cursor (Spec) *)

\* C37: within a section lastActionEnd never decreases from one action to the
\* next, whatever the order of the actions' timing offsets (the pacing waits,
\* which are measured from lastActionEnd, then add up to no more than the
\* recorded length of the section).
C37_CursorMonotone ==
    [][(pc = "actionWait" /\ pc' = "pace") => lastActionEnd' >= lastActionEnd]_vars


EngineNames == { "analyzeApp", "generateScript", "recordDemo", "renderDemo" }

\* entry i of the job's log is an update of the status to st
StatusWrite(i, st) == jobLog[i].op = "update" /\ jobLog[i].arg = st

\* entry i of the job's log is the engine call e, and it resolved
ResolvedCall(i, e) == jobLog[i].op = e /\ jobLog[i].ok

Finished == crawlPc \in { "resolved", "rejected" }

\* the calls of exploreApp that passed its guards
Visits == { i \in DOMAIN explored : explored[i].visited }

\* the calls of exploreApp made by the loop of call i
Followed(i) == { c \in DOMAIN explored : explored[c].parent = i }

NoRevisit ==
    \A i, j \in Visits :
        normalizeUrl(explored[i].url) = normalizeUrl(explored[j].url) => i = j

VisitedBound ==
    /\ Cardinality(visitedUrls) <= maxPagesPerDomain
    /\ Cardinality(Visits) <= maxPagesPerDomain

DepthBound == \A i \in Visits : explored[i].depth <= maxDepth

LinkBound == \A i \in DOMAIN explored : Cardinality(Followed(i)) <= LinkLimit

\* exploreApp never rejects, and once it has returned every page whose links
\* were listed has had each of its first five links passed to exploreApp,
\* whatever happened on the pages explored in between
ErrorsIsolated ==
    /\ crawlError \notin { "extract", "links" }
    /\ (crawlError = "goto" => explored = <<>>)
    /\ crawlPc \in { "features", "closing", "resolved" } /\ explored # <<>> =>
        \A i \in DOMAIN explored :
            explored[i].outcome = "listed" =>
                \A k \in DOMAIN FirstLinks(site[explored[i].url]) :
                    \E c \in Followed(i) :
                        explored[c].url = FirstLinks(site[explored[i].url])[k]

BrowserClosed == Finished => running.browser # "open"

\* the crawl ends: analyzeApp resolves or rejects
Terminates == <>Finished

\* C39: exploreApp visits no normalized URL twice, records at most
\* maxPagesPerDomain visited URLs, explores at no depth above maxDepth, follows
\* at most 5 links of a page, keeps exploring the other pages after an error
\* on one, and when analyzeApp has resolved or rejected no browser it
\* launched is still open.
C39_BoundedCrawl ==
    /\ NoRevisit
    /\ VisitedBound
    /\ DepthBound
    /\ LinkBound
    /\ ErrorsIsolated
    /\ BrowserClosed

====
